---- MODULE Spec2Model ----
(***************************************************************************)
(* Model of korangar's gameplay protocol/event layer:                      *)
(*   - OfflineSystem, the offline GameplayProvider (korangar-offline),     *)
(*   - the map-server packet handlers that reassemble the inventory        *)
(*     (korangar-network-client, packet version 20220406),                 *)
(*   - the login-server packet handlers and their failure translation.     *)
(* Every buffer entry carries, beside the GameplayEvent, its production    *)
(* index `seq` (a history value: the n-th event the provider produced).    *)
(***************************************************************************)
EXTENDS Integers, Sequences, FiniteSets, TLC

(***************************************************************************)
(* Bounds of the model.                                                    *)
(***************************************************************************)
\* events one provider run may produce
MaxEvents == 3
\* get_events calls of one provider run
MaxCalls == 2
\* largest client tick a request_client_tick may observe
MaxTick == 1
\* packets the map server sends over all sessions of one run
MaxPackets == 5
\* items of one item-list packet
MaxListLen == 2
\* map sessions of one run
MaxSessions == 2
\* packets the login server sends in one run
MaxLoginPackets == 2
\* largest account id and login id of a login success packet
MaxId == 2

\* character server packets handled in one run of the model
MaxCharacterPackets == 2
\* sessions (connect calls) of the network provider in one run
MaxNetSessions == 2
\* packets the tasks decode after their handshakes, over all sessions
MaxNetPackets == 1
\* success packets (login success, character selection success) of one sign-in
MaxSuccessPackets == 2
\* Scope::spawn calls in one run of the thread pool
MaxSpawns == 3
\* ScopedThreadPool::scope calls in one run of the thread pool
MaxScopes == 2
\* ScopedThreadPool::<2, 8>: the worker threads of the pool
THREAD_COUNT == 2
\* packets of the map and the character session in a run with no-op packets
MaxFramedPackets == 4
\* friend packets the map server sends in one run
MaxFriendPackets == 2
\* largest slot index of the modelled hotbar (Hotbar::skills has ten slots)
MaxSlot == 2
\* largest skill id of a skill put into the hotbar
MaxSkillId == 2
\* largest skill level of a skill put into the hotbar
MaxSkillLevel == 1
\* update_slot, clear_slot and swap_slot calls of one run
MaxHotbarCalls == 3
\* largest entity id the server announces
MaxEntityId == 2
\* entities spawned into the world in one run
MaxWorldSpawns == 4

VARIABLES
    \* OfflineSystem (korangar-offline/src/lib.rs:19-29)
    event_buffer,
    connected_to_login_server,
    connected_to_character_server,
    connected_to_map_server,
    \* the caller's GameplayEventBuffer handed to get_events
    events,
    \* outcome of the last provider call: "None", "Ok", "NotConnectedError", "Panic"
    off_result,
    \* history: the last provider call and the state it was made in
    off_call,
    \* history: every produced event with the number of get_events calls before it
    produced,
    \* history: every event a get_events call pushed, with the number of that call
    delivery,
    \* history: what the caller has taken out of its buffers, in order
    consumed,
    \* history: number of get_events calls so far
    calls,
    \* map session: the transient storage shared by the inventory handlers
    inventory_items,
    \* map session: a handler panicked, the session's task is gone
    map_panicked,
    \* history: number of the current map session, 0 before the first
    map_session,
    \* history: the packets handled so far, each with what its handler returned
    map_trace,
    \* history: the login server packets handled so far, each with the returned events
    login_trace,
    \* history: the character server packets handled so far, each with the returned events
    character_trace,
    \* network provider: the phase whose sessions the run exercises (the three
    \* connections of the provider share no state)
    net_phase,
    \* network provider: the ServerConnection of each phase
    server_connection,
    \* the I/O tasks spawned so far, one per session, in the order of the connect calls
    net_tasks,
    \* per session: the events its task has sent and the provider has not received
    event_channel,
    \* per session: whether outbound commands are queued and not yet written
    action_channel,
    \* history: per session, the events get_events has pushed to the caller
    net_events,
    \* history: number of connect_to_*_server calls made on the network provider
    connect_calls,
    \* PacketHandler: the packet types a handler is registered for
    packet_handler,
    \* history: the last registration call, the handler before it and what it returned
    registration,
    \* thread pool: where the thread that owns the pool is
    pool_main,
    \* thread pool: the spawn call in progress, its THREAD_NUM and its closure
    pool_spawn,
    \* thread pool: the result of catch_unwind(function) in scope
    function_result,
    \* ScopeData: num_running_threads and a_thread_panicked
    scope_data,
    \* per worker: the start flag, who holds its mutex, whether it is poisoned
    start_signals,
    \* per worker: the stored closure, called, who holds the mutex, whether it is poisoned
    work_channels,
    \* per worker: where its thread_loop is
    worker,
    \* history: the closures passed to spawn, each with what became of it
    closures,
    \* history: the scope calls, each with its outcome
    scope_calls,
    \* Hotbar::skills
    skills,
    \* history: the last Hotbar call, the slots before it, what the provider
    \* returned and the set_hotkey_data commands the call issued
    hotbar_call,
    \* GameState::world: the live entities with their EntityIdentifier
    world,
    \* GameState::entity_mapping
    entity_mapping,
    \* GameState::player_entity
    player_entity,
    \* hecs::World: number of entity handles handed out so far
    spawned,
    \* a GameState call panicked
    game_panicked

offline_vars == <<event_buffer, connected_to_login_server, connected_to_character_server,
                  connected_to_map_server, events, off_result, off_call, produced,
                  delivery, consumed, calls>>

map_vars == <<inventory_items, map_panicked, map_session, map_trace>>

login_vars == <<login_trace>>

character_vars == <<character_trace>>

net_vars == <<net_phase, server_connection, net_tasks, event_channel, action_channel, net_events,
              connect_calls>>

registry_vars == <<packet_handler, registration>>

pool_vars == <<pool_main, pool_spawn, function_result, scope_data, start_signals,
               work_channels, worker, closures, scope_calls>>

hotbar_vars == <<skills, hotbar_call>>

world_vars == <<world, entity_mapping, player_entity, spawned, game_panicked>>

vars == <<offline_vars, map_vars, login_vars, character_vars, net_vars, registry_vars,
          pool_vars, hotbar_vars, world_vars>>

(***************************************************************************)
(* ConnectionPhase and the commands of the GameplayProvider trait.         *)
(***************************************************************************)
Phases == {"Login", "Character", "Map"}

CharacterCommands ==
    {"request_character_list", "select_character", "create_character",
     "delete_character", "switch_character_slot"}

MapCommands ==
    {"map_loaded", "request_client_tick", "respawn", "log_out", "player_move",
     "warp_to_map", "entity_details", "player_attack", "send_chat_message",
     "start_dialog", "next_dialog", "close_dialog", "choose_dialog_option",
     "request_item_equip", "request_item_unequip", "cast_skill", "cast_ground_skill",
     "cast_channeling_skill", "stop_channeling_skill", "add_friend", "remove_friend",
     "reject_friend_request", "accept_friend_request", "set_hotkey_data",
     "select_buy_or_sell", "purchase_items", "close_shop", "sell_items",
     "request_stat_up"}

\* every trait method returning Result<(), NotConnectedError>
Commands == CharacterCommands \cup MapCommands

\* the phase a command talks to
CommandPhase(cmd) == IF cmd \in CharacterCommands THEN "Character" ELSE "Map"

\* OfflineSystem commands whose body is unimplemented!()
OfflineUnimplemented ==
    Commands \ {"request_character_list", "request_client_tick", "add_friend",
                "remove_friend", "reject_friend_request", "accept_friend_request"}

\* OfflineSystem commands whose body is Ok(()) and nothing else
OfflineNoop ==
    {"add_friend", "remove_friend", "reject_friend_request", "accept_friend_request"}

(***************************************************************************)
(* OfflineSystem                                                           *)
(***************************************************************************)
is_login_server_connected == connected_to_login_server
is_character_server_connected == connected_to_character_server
is_map_server_connected == connected_to_map_server

\* is_*_connected, by phase
OfflineConnected(phase) ==
    CASE phase = "Login" -> is_login_server_connected
      [] phase = "Character" -> is_character_server_connected
      [] phase = "Map" -> is_map_server_connected

\* GameplayEventBuffer::push / Vec::push
Push(buffer, entry) == Append(buffer, entry)

\* self.event_buffer.push(event): the entry gets the next production index
Produce(buffer, made, event) ==
    Push(buffer, [event |-> event, seq |-> Len(made) + 1])

\* the history entry of that push
Produced(made, event) ==
    Append(made, [event |-> event, seq |-> Len(made) + 1, after_call |-> calls])

\* the state a call is made in; a command is recorded with the phase it talks to
CallRecord(op, phase) ==
    [op |-> op,
     phase |-> phase,
     login |-> connected_to_login_server,
     character |-> connected_to_character_server,
     map |-> connected_to_map_server,
     event_buffer |-> event_buffer]

\* whether the phase of the last call was connected when the call was made
WasConnected(call, phase) ==
    CASE phase = "Login" -> call.login
      [] phase = "Character" -> call.character
      [] phase = "Map" -> call.map

OfflineInit ==
    /\ event_buffer = <<>>
    /\ connected_to_login_server = FALSE
    /\ connected_to_character_server = FALSE
    /\ connected_to_map_server = FALSE
    /\ events = <<>>
    /\ off_result = "None"
    /\ off_call = [op |-> "new", phase |-> "None", login |-> FALSE, character |-> FALSE, map |-> FALSE,
                   event_buffer |-> <<>>]
    /\ produced = <<>>
    /\ delivery = <<>>
    /\ consumed = <<>>
    /\ calls = 0

\* a panic unwinds the caller: no further call is made on the provider
OfflineAlive == off_result # "Panic"

(***************************************************************************)
(* GameplayEvent values the offline provider synthesizes.                  *)
(***************************************************************************)
OfflineLoginServerConnected ==
    [kind |-> "LoginServerConnected",
     character_servers |-> <<[server_ip |-> <<0, 0, 0, 0>>, server_port |-> 1234,
                              server_name |-> "Korangar Offline"]>>,
     login_data |-> [account_id |-> 0, login_id1 |-> 0, login_id2 |-> 0, sex |-> "Female"]]

OfflineCharacterServerConnected ==
    [kind |-> "CharacterServerConnected", normal_slot_count |-> 15]

OfflineAccountId == [kind |-> "AccountId", account_id |-> 2000000]

Disconnected(kind) == [kind |-> kind, reason |-> "ClosedByClient"]

OfflineCharacterList ==
    [kind |-> "CharacterList",
     characters |-> <<[character_id |-> 150000, name |-> "Sasami"]>>]

\* ClientTick(client_tick as u32): the ticks of the model are far below 2^32
UpdateClientTick(tick) == [kind |-> "UpdateClientTick", client_tick |-> tick]

\* everything but the provider's own fields is left alone by a provider call
OfflineCallFrame ==
    UNCHANGED <<events, delivery, consumed, calls, map_vars, login_vars, character_vars,
                net_vars, registry_vars,
                pool_vars, hotbar_vars, world_vars>>

\* a connect_to_login_server that pushes the success event twice
connect_to_login_server_twice ==
    /\ OfflineAlive
    /\ Len(produced) + 2 <= MaxEvents
    /\ connected_to_login_server' = TRUE
    /\ event_buffer' = Produce(Produce(event_buffer, produced, OfflineLoginServerConnected),
                               Produced(produced, OfflineLoginServerConnected),
                               OfflineLoginServerConnected)
    /\ produced' = Produced(Produced(produced, OfflineLoginServerConnected),
                            OfflineLoginServerConnected)
    /\ off_result' = "None"
    /\ off_call' = CallRecord("connect_to_login_server", "Login")
    /\ UNCHANGED <<connected_to_character_server, connected_to_map_server>>
    /\ OfflineCallFrame

connect_to_login_server ==
    /\ OfflineAlive
    /\ Len(produced) + 1 <= MaxEvents
    /\ connected_to_login_server' = TRUE
    /\ event_buffer' = Produce(event_buffer, produced, OfflineLoginServerConnected)
    /\ produced' = Produced(produced, OfflineLoginServerConnected)
    /\ off_result' = "None"
    /\ off_call' = CallRecord("connect_to_login_server", "Login")
    /\ UNCHANGED <<connected_to_character_server, connected_to_map_server>>
    /\ OfflineCallFrame

connect_to_character_server ==
    /\ OfflineAlive
    /\ Len(produced) + 1 <= MaxEvents
    /\ connected_to_character_server' = TRUE
    /\ event_buffer' = Produce(event_buffer, produced, OfflineCharacterServerConnected)
    /\ produced' = Produced(produced, OfflineCharacterServerConnected)
    /\ off_result' = "None"
    /\ off_call' = CallRecord("connect_to_character_server", "Character")
    /\ UNCHANGED <<connected_to_login_server, connected_to_map_server>>
    /\ OfflineCallFrame

\* unimplemented!()
connect_to_map_server ==
    /\ OfflineAlive
    /\ off_result' = "Panic"
    /\ off_call' = CallRecord("connect_to_map_server", "Map")
    /\ UNCHANGED <<event_buffer, produced, connected_to_login_server,
                   connected_to_character_server, connected_to_map_server>>
    /\ OfflineCallFrame

\* a disconnect from the login server that drops the character server as well
disconnect_from_login_server_all ==
    /\ OfflineAlive
    /\ Len(produced) + 2 <= MaxEvents
    /\ connected_to_login_server' = FALSE
    /\ connected_to_character_server' = FALSE
    /\ LET first == Produce(event_buffer, produced, OfflineAccountId)
           made == Produced(produced, OfflineAccountId)
       IN /\ event_buffer' = Produce(first, made, Disconnected("LoginServerDisconnected"))
          /\ produced' = Produced(made, Disconnected("LoginServerDisconnected"))
    /\ off_result' = "None"
    /\ off_call' = CallRecord("disconnect_from_login_server", "Login")
    /\ UNCHANGED connected_to_map_server
    /\ OfflineCallFrame

disconnect_from_login_server ==
    /\ OfflineAlive
    /\ Len(produced) + 2 <= MaxEvents
    /\ connected_to_login_server' = FALSE
    /\ LET first == Produce(event_buffer, produced, OfflineAccountId)
           made == Produced(produced, OfflineAccountId)
       IN /\ event_buffer' = Produce(first, made, Disconnected("LoginServerDisconnected"))
          /\ produced' = Produced(made, Disconnected("LoginServerDisconnected"))
    /\ off_result' = "None"
    /\ off_call' = CallRecord("disconnect_from_login_server", "Login")
    /\ UNCHANGED <<connected_to_character_server, connected_to_map_server>>
    /\ OfflineCallFrame

disconnect_from_character_server ==
    /\ OfflineAlive
    /\ Len(produced) + 1 <= MaxEvents
    /\ connected_to_character_server' = FALSE
    /\ event_buffer' = Produce(event_buffer, produced, Disconnected("CharacterServerDisconnected"))
    /\ produced' = Produced(produced, Disconnected("CharacterServerDisconnected"))
    /\ off_result' = "None"
    /\ off_call' = CallRecord("disconnect_from_character_server", "Character")
    /\ UNCHANGED <<connected_to_login_server, connected_to_map_server>>
    /\ OfflineCallFrame

disconnect_from_map_server ==
    /\ OfflineAlive
    /\ Len(produced) + 1 <= MaxEvents
    /\ connected_to_map_server' = FALSE
    /\ event_buffer' = Produce(event_buffer, produced, Disconnected("MapServerDisconnected"))
    /\ produced' = Produced(produced, Disconnected("MapServerDisconnected"))
    /\ off_result' = "None"
    /\ off_call' = CallRecord("disconnect_from_map_server", "Map")
    /\ UNCHANGED <<connected_to_login_server, connected_to_character_server>>
    /\ OfflineCallFrame

OfflineConnectionFrame ==
    UNCHANGED <<connected_to_login_server, connected_to_character_server,
                connected_to_map_server, map_vars, login_vars,
                character_vars, net_vars, registry_vars,
                pool_vars, hotbar_vars, world_vars>>

request_character_list ==
    /\ OfflineAlive
    /\ Len(produced) + 1 <= MaxEvents
    /\ event_buffer' = Produce(event_buffer, produced, OfflineCharacterList)
    /\ produced' = Produced(produced, OfflineCharacterList)
    /\ off_result' = "Ok"
    /\ off_call' = CallRecord("request_character_list", "Character")
    /\ OfflineConnectionFrame
    /\ OfflineCallFrame

\* now.duration_since(self.system_start).as_millis() as u32
request_client_tick ==
    /\ OfflineAlive
    /\ Len(produced) + 1 <= MaxEvents
    /\ \E tick \in 0..MaxTick :
         /\ event_buffer' = Produce(event_buffer, produced, UpdateClientTick(tick))
         /\ produced' = Produced(produced, UpdateClientTick(tick))
    /\ off_result' = "Ok"
    /\ off_call' = CallRecord("request_client_tick", "Map")
    /\ OfflineConnectionFrame
    /\ OfflineCallFrame

\* add_friend, remove_friend, reject_friend_request, accept_friend_request: Ok(())
OfflineNoopCommand ==
    /\ OfflineAlive
    /\ \E phase \in {CommandPhase(cmd) : cmd \in OfflineNoop} :
         off_call' = CallRecord("noop_command", phase)
    /\ off_result' = "Ok"
    /\ UNCHANGED <<event_buffer, produced>>
    /\ OfflineConnectionFrame
    /\ OfflineCallFrame

\* every other command: unimplemented!()
OfflineUnimplementedCommand ==
    /\ OfflineAlive
    /\ \E phase \in {CommandPhase(cmd) : cmd \in OfflineUnimplemented} :
         off_call' = CallRecord("unimplemented_command", phase)
    /\ off_result' = "Panic"
    /\ UNCHANGED <<event_buffer, produced>>
    /\ OfflineConnectionFrame
    /\ OfflineCallFrame

\* for event in pending.drain(..) { events.push(event) }
RECURSIVE DrainInto(_, _)
DrainInto(pending, buffer) ==
    IF pending = <<>> THEN buffer
    ELSE DrainInto(Tail(pending), Push(buffer, Head(pending)))

\* a get_events that iterates the pending events without draining them
get_events_undrained(pending, buffer) ==
    [event_buffer |-> pending, events |-> DrainInto(pending, buffer)]

\* a get_events that puts the pending events in front of what the buffer holds
get_events_front(pending, buffer) ==
    [event_buffer |-> <<>>, events |-> pending \o buffer]

\* OfflineSystem::get_events: the provider's buffer and the caller's, after the call
get_events(pending, buffer) ==
    [event_buffer |-> <<>>, events |-> DrainInto(pending, buffer)]

\* the caller polls, with the buffer it holds or with GameplayEventBuffer::new()
GetEvents ==
    /\ OfflineAlive
    /\ calls < MaxCalls
    /\ \E fresh \in BOOLEAN :
         LET buffer == IF fresh THEN <<>> ELSE events
             after == get_events(event_buffer, buffer)
             pushed == SubSeq(after.events, Len(buffer) + 1, Len(after.events))
         IN /\ event_buffer' = after.event_buffer
            /\ events' = after.events
            /\ consumed' = IF fresh THEN consumed \o events ELSE consumed
            /\ delivery' = delivery \o
                 [i \in 1..Len(pushed) |-> [seq |-> pushed[i].seq, call |-> calls + 1]]
    /\ calls' = calls + 1
    /\ off_result' = "None"
    /\ off_call' = CallRecord("get_events", "None")
    /\ UNCHANGED produced
    /\ OfflineConnectionFrame

\* GameplayEventBuffer::drain: the caller takes the events out of its buffer
DrainBuffer ==
    /\ OfflineAlive
    /\ events # <<>>
    /\ consumed' = consumed \o events
    /\ events' = <<>>
    /\ UNCHANGED <<event_buffer, produced, delivery, calls, off_result, off_call>>
    /\ OfflineConnectionFrame

OfflineNext ==
    \/ connect_to_login_server
    \/ connect_to_character_server
    \/ connect_to_map_server
    \/ disconnect_from_login_server
    \/ disconnect_from_character_server
    \/ disconnect_from_map_server
    \/ request_character_list
    \/ request_client_tick
    \/ OfflineNoopCommand
    \/ OfflineUnimplementedCommand
    \/ GetEvents
    \/ DrainBuffer

(***************************************************************************)
(* Map server packet handlers: the inventory reassembly                    *)
(* (register_map_server_packets, packet version 20220406).                 *)
(***************************************************************************)
\* Option<Vec<InventoryItem<NoMetadata>>>
None == [is_some |-> FALSE, items |-> <<>>]
Some(items) == [is_some |-> TRUE, items |-> items]

\* what a handler call leaves behind: the storage, the events it returned, a panic;
\* no handler of this file writes a log entry
Handled(storage, returned, panic) ==
    [inventory_items |-> storage, events |-> returned, panic |-> panic, logged |-> FALSE]

\* RegularItemInformation -> InventoryItem { details: Regular { .. } }
RegularItem(item_information) ==
    [index |-> item_information.index, details |-> "Regular"]

\* EquippableItemInformation -> InventoryItem { details: Equippable { .. } }
EquippableItem(item) == [index |-> item.index, details |-> "Equippable"]

\* Vec::extend(iter.map(f)), f given as the function [item |-> f(item)]
Extend(items, more, f) == items \o [i \in 1..Len(more) |-> f[more[i]]]

SetInventory(items) == [kind |-> "SetInventory", items |-> items]

\* a Start handler that keeps an accumulator that is already there
InventoyStartPacket_keep(storage) ==
    IF storage.is_some THEN Handled(storage, <<>>, FALSE) ELSE Handled(Some(<<>>), <<>>, FALSE)

\* |_: InventoyStartPacket| { *inventory_items.borrow_mut() = Some(Vec::new()); NoNetworkEvents }
InventoyStartPacket(storage) == Handled(Some(<<>>), <<>>, FALSE)

\* an item-list handler that puts the new items in front of the accumulated ones
RegularItemListPacket_front(storage, item_information) ==
    IF storage.is_some
    THEN Handled(Some(Extend(<<>>, item_information,
                             [item \in {item_information[i] : i \in 1..Len(item_information)}
                                |-> RegularItem(item)]) \o storage.items),
                 <<>>, FALSE)
    ELSE Handled(storage, <<>>, TRUE)

\* |packet: RegularItemListPacket| ...as_mut().expect("Unexpected inventory packet").extend(..)
RegularItemListPacket(storage, item_information) ==
    IF storage.is_some
    THEN Handled(Some(Extend(storage.items, item_information,
                             [item \in {item_information[i] : i \in 1..Len(item_information)}
                                |-> RegularItem(item)])),
                 <<>>, FALSE)
    ELSE Handled(storage, <<>>, TRUE)

\* |packet: EquippableItemListPacket| ...as_mut().expect("Unexpected inventory packet").extend(..)
EquippableItemListPacket(storage, item_information) ==
    IF storage.is_some
    THEN Handled(Some(Extend(storage.items, item_information,
                             [item \in {item_information[i] : i \in 1..Len(item_information)}
                                |-> EquippableItem(item)])),
                 <<>>, FALSE)
    ELSE Handled(storage, <<>>, TRUE)

\* an End handler that reads the accumulator without taking it
InventoyEndPacket_peek(storage) ==
    IF storage.is_some
    THEN Handled(storage, <<SetInventory(storage.items)>>, FALSE)
    ELSE Handled(storage, <<>>, TRUE)

\* |_: InventoyEndPacket| { let items = ..take().expect("Unexpected inventory end packet"); SetInventory { items } }
InventoyEndPacket(storage) ==
    IF storage.is_some
    THEN Handled(None, <<SetInventory(storage.items)>>, FALSE)
    ELSE Handled(storage, <<>>, TRUE)

\* |_: MapServerPingPacket| NoNetworkEvents
MapServerPingPacket(storage) == Handled(storage, <<>>, FALSE)

\* let inventory_items = Rc::new(RefCell::new(None)), once per registration
RegisteredStorage(storage) == None

MapInit ==
    /\ inventory_items = None
    /\ map_panicked = FALSE
    /\ map_session = 0
    /\ map_trace = <<>>

\* the items the server has sent so far; inventory indices are not reused
ItemsSent ==
    LET RECURSIVE Sum(_)
        Sum(n) == IF n = 0 THEN 0 ELSE Sum(n - 1) + Len(map_trace[n].items)
    IN Sum(Len(map_trace))

\* the item information of a packet with k items
ItemInformation(k) == [i \in 1..k |-> [index |-> ItemsSent + i]]

\* a session's task decodes and handles packets until a handler panics
MapSessionRunning ==
    /\ map_session > 0
    /\ ~map_panicked
    /\ Len(map_trace) < MaxPackets

\* the handler ran: its storage, and the history entry of the packet
MapHandle(kind, items, result) ==
    /\ inventory_items' = result.inventory_items
    /\ map_panicked' = result.panic
    /\ map_trace' = Append(map_trace,
                           [session |-> map_session, kind |-> kind, items |-> items,
                            active |-> inventory_items.is_some,
                            events |-> result.events, panic |-> result.panic,
                            logged |-> result.logged])
    /\ UNCHANGED <<map_session, offline_vars, login_vars, character_vars, net_vars, registry_vars,
                pool_vars, hotbar_vars, world_vars>>

\* a map session starts: a packet handler is built for the connection and
\* register_map_server_packets is run on it
MapSessionStart ==
    /\ map_session < MaxSessions
    /\ map_session' = map_session + 1
    /\ inventory_items' = RegisteredStorage(inventory_items)
    /\ map_panicked' = FALSE
    /\ UNCHANGED <<map_trace, offline_vars, login_vars, character_vars, net_vars, registry_vars,
                pool_vars, hotbar_vars, world_vars>>

HandleInventoyStartPacket ==
    /\ MapSessionRunning
    /\ MapHandle("InventoyStartPacket", <<>>, InventoyStartPacket(inventory_items))

HandleRegularItemListPacket ==
    /\ MapSessionRunning
    /\ \E k \in 0..MaxListLen :
         MapHandle("RegularItemListPacket", ItemInformation(k),
                   RegularItemListPacket(inventory_items, ItemInformation(k)))

HandleEquippableItemListPacket ==
    /\ MapSessionRunning
    /\ \E k \in 0..MaxListLen :
         MapHandle("EquippableItemListPacket", ItemInformation(k),
                   EquippableItemListPacket(inventory_items, ItemInformation(k)))

HandleInventoyEndPacket ==
    /\ MapSessionRunning
    /\ MapHandle("InventoyEndPacket", <<>>, InventoyEndPacket(inventory_items))

HandleMapServerPingPacket ==
    /\ MapSessionRunning
    /\ MapHandle("MapServerPingPacket", <<>>, MapServerPingPacket(inventory_items))

\* the packet types register_noop is called for next to the inventory handlers
MapNoopPackets == {"EquippableSwitchItemListPacket", "MapTypePacket"}

\* a no-op handler that resets the transient inventory storage
MapNoopPacket_reset(storage) == Handled(None, <<>>, FALSE)

\* register_noop::<T>(): the packet is consumed, no event is returned; the
\* handler holds no reference to the transient storage
MapNoopPacket(storage) == Handled(storage, <<>>, FALSE)

HandleMapNoopPacket ==
    /\ MapSessionRunning
    /\ \E kind \in MapNoopPackets :
         MapHandle(kind, <<>>, MapNoopPacket(inventory_items))

\* FriendRequestResult
FriendRequestResults == {"Accepted", "Rejected", "OwnFriendListFull", "OtherFriendListFull"}

\* Friend: the friend with account id, character id and name number i
Friend(i) == [account_id |-> i, character_id |-> i, name |-> i]

\* the format! of the handler: the template and the name put into it
FriendRequestResultText(packet) ==
    CASE packet.result = "Accepted" ->
             <<"You have become friends with {}.", packet.friend.name>>
      [] packet.result = "Rejected" ->
             <<"{} does not want to be friends with you.", packet.friend.name>>
      [] packet.result = "OwnFriendListFull" -> <<"Your Friend List is full.">>
      [] packet.result = "OtherFriendListFull" ->
             <<"{}'s Friend List is full.", packet.friend.name>>

ChatMessage(text, color) == [kind |-> "ChatMessage", text |-> text, color |-> color]

FriendAdded(friend) == [kind |-> "FriendAdded", friend |-> friend]

FriendRequestResultPacket_added(storage, packet) ==
    Handled(storage,
            <<ChatMessage(FriendRequestResultText(packet), "Information"),
              FriendAdded(packet.friend)>>,
            FALSE)

\* the handler of FriendRequestResultPacket
FriendRequestResultPacket(storage, packet) ==
    LET message == <<ChatMessage(FriendRequestResultText(packet), "Information")>>
    IN  Handled(storage,
                IF packet.result = "Accepted"
                THEN Append(message, FriendAdded(packet.friend))
                ELSE message,
                FALSE)

\* the handler of FriendRequestPacket
FriendRequestPacket(storage, packet) ==
    Handled(storage, <<[kind |-> "FriendRequest", requestee |-> packet.requestee]>>, FALSE)

FriendSessionRunning ==
    /\ MapSessionRunning
    /\ Len(map_trace) < MaxFriendPackets

HandleFriendRequestResultPacket ==
    /\ FriendSessionRunning
    /\ \E packet \in [result : FriendRequestResults, friend : {Friend(i) : i \in 1..MaxId}] :
         MapHandle("FriendRequestResultPacket", <<packet>>,
                   FriendRequestResultPacket(inventory_items, packet))

HandleFriendRequestPacket ==
    /\ FriendSessionRunning
    /\ \E packet \in [requestee : {Friend(i) : i \in 1..MaxId}] :
         MapHandle("FriendRequestPacket", <<packet>>,
                   FriendRequestPacket(inventory_items, packet))

FriendNext ==
    \/ MapSessionStart
    \/ HandleFriendRequestResultPacket
    \/ HandleFriendRequestPacket

MapNext ==
    \/ MapSessionStart
    \/ HandleInventoyStartPacket
    \/ HandleRegularItemListPacket
    \/ HandleEquippableItemListPacket
    \/ HandleInventoyEndPacket
    \/ HandleMapServerPingPacket

(***************************************************************************)
(* Login server packet handlers (register_login_server_packets).           *)
(***************************************************************************)
\* the variants the handler's exhaustive match on LoginFailedPacket.reason names
LoginFailedReason == {"ServerClosed", "AlreadyLoggedIn", "AlreadyOnline"}

\* the variants the handler's exhaustive match on LoginFailedPacket2.reason names
LoginFailedReason2 ==
    {"UnregisteredId", "IncorrectPassword", "IdExpired", "RejectedFromServer",
     "BlockedByGMTeam", "GameOutdated", "LoginProhibitedUntil", "ServerFull",
     "CompanyAccountLimitReached"}

UnifiedLoginFailedReason ==
    {"ServerClosed", "AlreadyLoggedIn", "AlreadyOnline", "UnregisteredId",
     "IncorrectPassword", "IdExpired", "RejectedFromServer", "BlockedByGMTeam",
     "GameOutdated", "LoginProhibitedUntil", "ServerFull", "CompanyAccountLimitReached"}

LoginServerConnectionFailed(translated) ==
    [kind |-> "LoginServerConnectionFailed",
     reason |-> translated[1], message |-> translated[2]]

\* a LoginFailedPacket handler whose match has a catch-all arm yielding no event
LoginFailedPacket_partial(reason) ==
    CASE reason = "ServerClosed" ->
           <<LoginServerConnectionFailed(<<"ServerClosed", "Server closed">>)>>
      [] reason = "AlreadyLoggedIn" ->
           <<LoginServerConnectionFailed(
               <<"AlreadyLoggedIn", "Someone has already logged in with this id">>)>>
      [] OTHER -> <<>>

\* a LoginFailedPacket handler whose AlreadyOnline arm returns the AlreadyLoggedIn failure
LoginFailedPacket_collapsed(reason) ==
    <<LoginServerConnectionFailed(
        CASE reason = "ServerClosed" -> <<"ServerClosed", "Server closed">>
          [] reason = "AlreadyLoggedIn" ->
               <<"AlreadyLoggedIn", "Someone has already logged in with this id">>
          [] reason = "AlreadyOnline" ->
               <<"AlreadyLoggedIn", "Someone has already logged in with this id">>)>>

\* |packet: LoginFailedPacket| match packet.reason { .. }
LoginFailedPacket(reason) ==
    <<LoginServerConnectionFailed(
        CASE reason = "ServerClosed" -> <<"ServerClosed", "Server closed">>
          [] reason = "AlreadyLoggedIn" ->
               <<"AlreadyLoggedIn", "Someone has already logged in with this id">>
          [] reason = "AlreadyOnline" -> <<"AlreadyOnline", "Already online">>)>>

\* a LoginFailedPacket2 handler whose IncorrectPassword arm returns the UnregisteredId failure
LoginFailedPacket2_swapped(reason) ==
    <<LoginServerConnectionFailed(
        CASE reason = "UnregisteredId" -> <<"UnregisteredId", "Unregistered id">>
          [] reason = "IncorrectPassword" -> <<"UnregisteredId", "Unregistered id">>
          [] reason = "IdExpired" -> <<"IdExpired", "Id has expired">>
          [] reason = "RejectedFromServer" -> <<"RejectedFromServer", "Rejected from server">>
          [] reason = "BlockedByGMTeam" -> <<"BlockedByGMTeam", "Blocked by gm team">>
          [] reason = "GameOutdated" -> <<"GameOutdated", "Game outdated">>
          [] reason = "LoginProhibitedUntil" ->
               <<"LoginProhibitedUntil", "Login prohibited until">>
          [] reason = "ServerFull" -> <<"ServerFull", "Server is full">>
          [] reason = "CompanyAccountLimitReached" ->
               <<"CompanyAccountLimitReached", "Company account limit reached">>)>>

\* |packet: LoginFailedPacket2| match packet.reason { .. }
LoginFailedPacket2(reason) ==
    <<LoginServerConnectionFailed(
        CASE reason = "UnregisteredId" -> <<"UnregisteredId", "Unregistered id">>
          [] reason = "IncorrectPassword" -> <<"IncorrectPassword", "Incorrect password">>
          [] reason = "IdExpired" -> <<"IdExpired", "Id has expired">>
          [] reason = "RejectedFromServer" -> <<"RejectedFromServer", "Rejected from server">>
          [] reason = "BlockedByGMTeam" -> <<"BlockedByGMTeam", "Blocked by gm team">>
          [] reason = "GameOutdated" -> <<"GameOutdated", "Game outdated">>
          [] reason = "LoginProhibitedUntil" ->
               <<"LoginProhibitedUntil", "Login prohibited until">>
          [] reason = "ServerFull" -> <<"ServerFull", "Server is full">>
          [] reason = "CompanyAccountLimitReached" ->
               <<"CompanyAccountLimitReached", "Company account limit reached">>)>>

\* a login success handler that mixes up the two login ids
LoginServerLoginSuccessPacket_swapped(packet) ==
    <<[kind |-> "LoginServerConnected",
       character_servers |-> packet.character_server_information,
       login_data |-> [account_id |-> packet.account_id,
                       login_id1 |-> packet.login_id2,
                       login_id2 |-> packet.login_id1,
                       sex |-> packet.sex]]>>

\* |packet: LoginServerLoginSuccessPacket| GameplayEvent::LoginServerConnected { .. }
LoginServerLoginSuccessPacket(packet) ==
    <<[kind |-> "LoginServerConnected",
       character_servers |-> packet.character_server_information,
       login_data |-> [account_id |-> packet.account_id,
                       login_id1 |-> packet.login_id1,
                       login_id2 |-> packet.login_id2,
                       sex |-> packet.sex]]>>

\* the login success packets of the model
LoginSuccessPackets ==
    [account_id : 1..MaxId, login_id1 : 1..MaxId, login_id2 : 1..MaxId,
     sex : {"Female", "Male"},
     character_server_information : {<<[server_port |-> 6121, server_name |-> "Korangar"]>>}]

LoginInit == login_trace = <<>>

\* the login session's task decodes and handles the packets the server sends
LoginSessionRunning == Len(login_trace) < MaxLoginPackets

\* the handler ran: the history entry of the packet
LoginHandle(kind, payload, returned) ==
    /\ login_trace' = Append(login_trace,
                             [kind |-> kind, payload |-> payload, events |-> returned])
    /\ UNCHANGED <<offline_vars, map_vars, character_vars, net_vars, registry_vars,
                pool_vars, hotbar_vars, world_vars>>

HandleLoginServerLoginSuccessPacket ==
    /\ LoginSessionRunning
    /\ \E packet \in LoginSuccessPackets :
         LoginHandle("LoginServerLoginSuccessPacket", packet,
                     LoginServerLoginSuccessPacket(packet))

HandleLoginFailedPacket ==
    /\ LoginSessionRunning
    /\ \E reason \in LoginFailedReason :
         LoginHandle("LoginFailedPacket", reason, LoginFailedPacket(reason))

HandleLoginFailedPacket2 ==
    /\ LoginSessionRunning
    /\ \E reason \in LoginFailedReason2 :
         LoginHandle("LoginFailedPacket2", reason, LoginFailedPacket2(reason))

LoginNext ==
    \/ HandleLoginServerLoginSuccessPacket
    \/ HandleLoginFailedPacket
    \/ HandleLoginFailedPacket2

(***************************************************************************)
(* Character server packet handlers (register_character_server_packets).   *)
(***************************************************************************)
\* the one variant the handler's match on CharacterSelectionFailedPacket.reason names
CharacterSelectionFailedReason == {"RejectedFromServer"}

UnifiedCharacterSelectionFailedReason == {"RejectedFromServer", "MapServerUnavailable"}

\* the packet types registered with register_noop
CharacterNoopPackets ==
    {"CharacterListPacket", "CharacterSlotPagePacket", "CharacterBanListPacket",
     "LoginPincodePacket", "Packet0b18"}

\* the character server's |packet: LoginFailedPacket| handler
CharacterLoginFailedPacket(reason) ==
    <<[kind |-> "CharacterServerConnectionFailed",
       reason |-> reason,
       message |-> CASE reason = "ServerClosed" -> "Server closed"
                     [] reason = "AlreadyLoggedIn" ->
                          "Someone has already logged in with this id"
                     [] reason = "AlreadyOnline" -> "Already online"]>>

CharacterServerLoginSuccessPacket(packet) ==
    <<[kind |-> "CharacterServerConnected",
       normal_slot_count |-> packet.normal_slot_count]>>

\* register_noop: the packet is consumed and no event is returned
CharacterNoopPacket == <<>>

\* IpAddr::V4(octets.into()): the four octets as an IPv4 address
IpAddrV4(octets) == [version |-> "V4", octets |-> octets]

CharacterSelectionSuccessPacket(packet) ==
    <<[kind |-> "CharacterSelected",
       login_data |-> [server_ip |-> IpAddrV4(packet.map_server_ip),
                       server_port |-> packet.map_server_port,
                       character_id |-> packet.character_id]]>>

CharacterSelectionFailed(translated) ==
    [kind |-> "CharacterSelectionFailed",
     reason |-> translated[1], message |-> translated[2]]

CharacterSelectionFailedPacket(reason) ==
    <<CharacterSelectionFailed(
        CASE reason = "RejectedFromServer" ->
               <<"RejectedFromServer", "Rejected from server">>)>>

\* a MapServerUnavailablePacket handler that is registered as a no-op
MapServerUnavailablePacket_noop == <<>>

MapServerUnavailablePacket ==
    <<CharacterSelectionFailed(
        <<"MapServerUnavailable", "Map server currently unavailable">>)>>

CharacterInit == character_trace = <<>>

\* the character session's task decodes and handles the packets the server sends
CharacterSessionRunning == Len(character_trace) < MaxCharacterPackets

\* the handler ran: the history entry of the packet
CharacterHandle(kind, payload, returned) ==
    /\ character_trace' = Append(character_trace,
                                 [kind |-> kind, payload |-> payload, events |-> returned])
    /\ UNCHANGED <<offline_vars, map_vars, login_vars, net_vars, registry_vars,
                pool_vars, hotbar_vars, world_vars>>

HandleCharacterLoginFailedPacket ==
    /\ CharacterSessionRunning
    /\ \E reason \in LoginFailedReason :
         CharacterHandle("LoginFailedPacket", reason, CharacterLoginFailedPacket(reason))

HandleCharacterServerLoginSuccessPacket ==
    /\ CharacterSessionRunning
    /\ \E packet \in [normal_slot_count : {9, 15}] :
         CharacterHandle("CharacterServerLoginSuccessPacket", packet,
                         CharacterServerLoginSuccessPacket(packet))

HandleCharacterNoopPacket ==
    /\ CharacterSessionRunning
    /\ \E kind \in CharacterNoopPackets :
         CharacterHandle(kind, "None", CharacterNoopPacket)

HandleCharacterSelectionSuccessPacket ==
    /\ CharacterSessionRunning
    /\ \E packet \in [map_server_ip : {<<127, 0, 0, 1>>, <<192, 168, 0, 2>>},
                       map_server_port : {5121}, character_id : 1..MaxId] :
         CharacterHandle("CharacterSelectionSuccessPacket", packet,
                         CharacterSelectionSuccessPacket(packet))

HandleCharacterSelectionFailedPacket ==
    /\ CharacterSessionRunning
    /\ \E reason \in CharacterSelectionFailedReason :
         CharacterHandle("CharacterSelectionFailedPacket", reason,
                         CharacterSelectionFailedPacket(reason))

HandleMapServerUnavailablePacket ==
    /\ CharacterSessionRunning
    /\ CharacterHandle("MapServerUnavailablePacket", "None", MapServerUnavailablePacket)

CharacterNext ==
    \/ HandleCharacterLoginFailedPacket
    \/ HandleCharacterServerLoginSuccessPacket
    \/ HandleCharacterNoopPacket
    \/ HandleCharacterSelectionSuccessPacket
    \/ HandleCharacterSelectionFailedPacket
    \/ HandleMapServerUnavailablePacket

(***************************************************************************)
(* Network provider: one session per phase (server.rs).  The provider      *)
(* holds a ServerConnection per phase; a connect call creates the two      *)
(* channels of a session, keeps action_sender and event_receiver in        *)
(* ServerConnection::Connected and hands action_receiver and event_sender  *)
(* to the session's I/O task in a ServerConnectCommand.                    *)
(***************************************************************************)
\* the variants of enum ServerConnection
ServerConnection == {"Connected", "ClosingManually", "Disconnected"}

\* the variants of enum NetworkTaskError
NetworkTaskError == {"FailedToConnect", "ConnectionClosed"}

\* ServerConnection::Connected { action_sender, event_receiver, .. } of a session
ServerConnected(session) == [state |-> "Connected", session |-> session]

ServerClosingManually == [state |-> "ClosingManually", session |-> 0]

ServerDisconnected == [state |-> "Disconnected", session |-> 0]

\* a take that hands out Disconnected and leaves the connection in place
take_swapped(connection) == [taken |-> ServerDisconnected, left |-> connection]

\* std::mem::replace(self, ServerConnection::Disconnected)
take(connection) == [taken |-> connection, left |-> ServerDisconnected]

\* the task spawned for a ServerConnectCommand of the phase: it owns the
\* socket, action_receiver and event_sender
ServerConnectCommand(phase) ==
    [phase |-> phase, status |-> "Handshaking", error |-> "None", packets |-> 0]

\* a task that still runs
TaskLive(task) == task.status \in {"Handshaking", "Running"}

\* the latest session of the phase, 0 when it never had one
SessionOf(phase) ==
    LET sessions == {n \in 1..Len(net_tasks) : net_tasks[n].phase = phase}
    IN IF sessions = {} THEN 0 ELSE CHOOSE n \in sessions : \A m \in sessions : m <= n

\* the event of the handshake success packet of each phase
ConnectedEvent(phase) ==
    [kind |-> CASE phase = "Login" -> "LoginServerConnected"
                [] phase = "Character" -> "CharacterServerConnected"
                [] phase = "Map" -> "UpdateClientTick"]

\* the event of the n-th packet a session's decode loop handles after the handshake
PacketEvent(n) == [kind |-> "Packet", n |-> n]

\* the terminal event of a session
DisconnectedEvent(phase, reason) ==
    [kind |-> CASE phase = "Login" -> "LoginServerDisconnected"
                [] phase = "Character" -> "CharacterServerDisconnected"
                [] phase = "Map" -> "MapServerDisconnected",
     reason |-> reason]

\* the packets decoded after the handshakes so far
PacketsDecoded ==
    LET RECURSIVE Total(_)
        Total(n) == IF n = 0 THEN 0 ELSE Total(n - 1) + net_tasks[n].packets
    IN Total(Len(net_tasks))

\* the events still queued for a dropped event_receiver are dropped with it
DropReceiver(channels, connection) ==
    IF connection.state = "Connected"
    THEN [channels EXCEPT ![connection.session] = <<>>]
    ELSE channels

\* dropping a Connected value drops its action_sender and event_receiver:
\* the session's task is cancelled
DropConnection(tasks, connection) ==
    IF connection.state = "Connected" /\ TaskLive(tasks[connection.session])
    THEN [tasks EXCEPT ![connection.session].status = "Cancelled"]
    ELSE tasks

NetInit ==
    /\ net_phase \in Phases
    /\ server_connection = [phase \in Phases |-> ServerDisconnected]
    /\ net_tasks = <<>>
    /\ event_channel = <<>>
    /\ action_channel = <<>>
    /\ net_events = <<>>
    /\ connect_calls = 0

NetFrame ==
    UNCHANGED <<net_phase, offline_vars, map_vars, login_vars, character_vars, registry_vars,
                pool_vars, hotbar_vars, world_vars>>

\* a connect that leaves the task of the session it replaces running
NetConnect_keep(phase) ==
    /\ phase = net_phase
    /\ Len(net_tasks) < MaxNetSessions
    /\ net_tasks' = Append(net_tasks, ServerConnectCommand(phase))
    /\ event_channel' = Append(event_channel, <<>>)
    /\ action_channel' = Append(action_channel, FALSE)
    /\ server_connection' =
         [server_connection EXCEPT ![phase] = ServerConnected(Len(net_tasks) + 1)]
    /\ connect_calls' = connect_calls + 1
    /\ net_events' = Append(net_events, <<>>)
    /\ NetFrame

\* connect_to_*_server: a new pair of channels, a ServerConnectCommand for
\* the network thread, and the provider's ends stored in Connected
NetConnect(phase) ==
    /\ phase = net_phase
    /\ Len(net_tasks) < MaxNetSessions
    /\ net_tasks' = Append(DropConnection(net_tasks, server_connection[phase]),
                           ServerConnectCommand(phase))
    /\ event_channel' = Append(DropReceiver(event_channel, server_connection[phase]), <<>>)
    /\ action_channel' = Append(action_channel, FALSE)
    /\ server_connection' =
         [server_connection EXCEPT ![phase] = ServerConnected(Len(net_tasks) + 1)]
    /\ connect_calls' = connect_calls + 1
    /\ net_events' = Append(net_events, <<>>)
    /\ NetFrame

\* disconnect_from_*_server on a connected phase
NetDisconnect(phase) ==
    /\ server_connection[phase].state = "Connected"
    /\ server_connection' = [server_connection EXCEPT ![phase] = ServerClosingManually]
    /\ net_tasks' = DropConnection(net_tasks, server_connection[phase])
    /\ event_channel' = DropReceiver(event_channel, server_connection[phase])
    /\ UNCHANGED <<action_channel, net_events, connect_calls>>
    /\ NetFrame

is_server_connected(phase) == server_connection[phase].state = "Connected"

\* a command of a connected phase: its bytes are queued on the session's action channel
NetCommand(phase) ==
    /\ is_server_connected(phase)
    /\ action_channel' =
         [action_channel EXCEPT ![server_connection[phase].session] = TRUE]
    /\ UNCHANGED <<server_connection, net_tasks, event_channel, net_events, connect_calls>>
    /\ NetFrame

\* a poll that pushes the received events newest first
handle_connection_reversed(phase) ==
    LET connection == take(server_connection[phase])
        session == connection.taken.session
        received == IF connection.taken.state = "Connected"
                    THEN event_channel[session] ELSE <<>>
    IN [connection |-> IF connection.taken.state = "Connected"
                       THEN connection.taken ELSE connection.left,
        session |-> session,
        pushed |-> [i \in 1..Len(received) |-> received[Len(received) + 1 - i]]]

\* get_events for one phase: match connection.take() { .. }, with the
\* session whose events are pushed onto the caller's buffer
handle_connection(phase) ==
    LET connection == take(server_connection[phase])
        session == connection.taken.session
    IN CASE connection.taken.state = "Connected" ->
              \* every received event is pushed; the connection is put back
              \* unless the task has dropped its event_sender
              IF TaskLive(net_tasks[session])
              THEN [connection |-> connection.taken, session |-> session,
                    pushed |-> event_channel[session]]
              ELSE [connection |-> connection.left, session |-> session,
                    pushed |-> Append(event_channel[session],
                                      DisconnectedEvent(phase, "ConnectionError"))]
         [] connection.taken.state = "ClosingManually" ->
              [connection |-> connection.left, session |-> SessionOf(phase),
               pushed |-> <<DisconnectedEvent(phase, "ClosedByClient")>>]
         [] connection.taken.state = "Disconnected" ->
              [connection |-> connection.left, session |-> 0, pushed |-> <<>>]

\* get_events: every phase is handled; net_events keeps what was pushed per session
NetGetEvents ==
    /\ server_connection' = [phase \in Phases |-> handle_connection(phase).connection]
    /\ net_events' =
         [n \in DOMAIN net_events |->
            IF handle_connection(net_tasks[n].phase).session = n
            THEN net_events[n] \o handle_connection(net_tasks[n].phase).pushed
            ELSE net_events[n]]
    /\ event_channel' =
         [n \in DOMAIN event_channel |->
            IF handle_connection(net_tasks[n].phase).session = n
            THEN <<>> ELSE event_channel[n]]
    /\ UNCHANGED <<net_tasks, action_channel, connect_calls>>
    /\ NetFrame

TaskFrame == UNCHANGED <<server_connection, net_events, connect_calls>>

\* the server accepted the handshake: the decode loop starts with its packet
TaskHandshakeSuccess(session) ==
    /\ session \in DOMAIN net_tasks
    /\ net_tasks[session].status = "Handshaking"
    /\ net_tasks' = [net_tasks EXCEPT ![session].status = "Running"]
    /\ event_channel' = [event_channel EXCEPT
                           ![session] = Append(@, ConnectedEvent(net_tasks[session].phase))]
    /\ UNCHANGED action_channel
    /\ TaskFrame
    /\ NetFrame

\* the task ends with an error and drops its event_sender
TaskFail(session, error) ==
    /\ net_tasks' = [net_tasks EXCEPT ![session].status = "Failed", ![session].error = error]
    /\ UNCHANGED <<event_channel, action_channel>>
    /\ TaskFrame
    /\ NetFrame

TaskHandshakeFailure(session) ==
    /\ session \in DOMAIN net_tasks
    /\ net_tasks[session].status = "Handshaking"
    /\ TaskFail(session, "FailedToConnect")

\* a task that answers a socket error by connecting again as a new session
TaskSocketError_retry(session) ==
    /\ session \in DOMAIN net_tasks
    /\ net_tasks[session].status = "Running"
    /\ Len(net_tasks) < MaxNetSessions
    /\ net_tasks' = Append([net_tasks EXCEPT ![session].status = "Failed",
                                             ![session].error = "ConnectionClosed"],
                           ServerConnectCommand(net_tasks[session].phase))
    /\ event_channel' = Append(event_channel, <<>>)
    /\ action_channel' = Append(action_channel, FALSE)
    /\ net_events' = Append(net_events, <<>>)
    /\ UNCHANGED <<server_connection, connect_calls>>
    /\ NetFrame

TaskSocketError(session) ==
    /\ session \in DOMAIN net_tasks
    /\ net_tasks[session].status = "Running"
    /\ TaskFail(session, "ConnectionClosed")

\* a decode loop that hands out events before the handshake is resolved
TaskReceivePacket_early(session) ==
    /\ session \in DOMAIN net_tasks
    /\ TaskLive(net_tasks[session])
    /\ PacketsDecoded < MaxNetPackets
    /\ net_tasks' = [net_tasks EXCEPT ![session].packets = @ + 1]
    /\ event_channel' = [event_channel EXCEPT
                           ![session] = Append(@, PacketEvent(net_tasks[session].packets + 1))]
    /\ UNCHANGED action_channel
    /\ TaskFrame
    /\ NetFrame

\* the decode loop handles a packet and sends the handler's event
TaskReceivePacket(session) ==
    /\ session \in DOMAIN net_tasks
    /\ net_tasks[session].status = "Running"
    /\ PacketsDecoded < MaxNetPackets
    /\ net_tasks' = [net_tasks EXCEPT ![session].packets = @ + 1]
    /\ event_channel' = [event_channel EXCEPT
                           ![session] = Append(@, PacketEvent(net_tasks[session].packets + 1))]
    /\ UNCHANGED action_channel
    /\ TaskFrame
    /\ NetFrame

\* the task writes the queued commands to the socket
TaskSendCommand(session) ==
    /\ session \in DOMAIN net_tasks
    /\ net_tasks[session].status = "Running"
    /\ action_channel[session]
    /\ action_channel' = [action_channel EXCEPT ![session] = FALSE]
    /\ UNCHANGED <<net_tasks, event_channel>>
    /\ TaskFrame
    /\ NetFrame

\* the sessions of a run, numbered in the order of the connect calls
Sessions == 1..MaxNetSessions

\* the first connect call of a phase, when the caller connects the phases side by side
ConnectPhase(phase) ==
    /\ server_connection[phase].state = "Disconnected"
    /\ SessionOf(phase) = 0
    /\ net_tasks' = Append(net_tasks, ServerConnectCommand(phase))
    /\ event_channel' = Append(event_channel, <<>>)
    /\ action_channel' = Append(action_channel, FALSE)
    /\ server_connection' =
         [server_connection EXCEPT ![phase] = ServerConnected(Len(net_tasks) + 1)]
    /\ connect_calls' = connect_calls + 1
    /\ net_events' = Append(net_events, <<>>)
    /\ NetFrame

\* one session per phase
PhaseSessions == 1..Cardinality(Phases)

\* the three phases connected side by side: their tasks and the consumer's polls
MergeNext ==
    \/ \E phase \in Phases : ConnectPhase(phase)
    \/ \E session \in PhaseSessions : TaskHandshakeSuccess(session)
    \/ \E session \in PhaseSessions : TaskReceivePacket(session)
    \/ NetGetEvents

NetNext ==
    \/ \E phase \in Phases : NetConnect(phase)
    \/ \E phase \in Phases : NetDisconnect(phase)
    \/ \E phase \in Phases : NetCommand(phase)
    \/ NetGetEvents
    \/ \E session \in Sessions : TaskHandshakeSuccess(session)
    \/ \E session \in Sessions : TaskHandshakeFailure(session)
    \/ \E session \in Sessions : TaskSocketError(session)
    \/ \E session \in Sessions : TaskReceivePacket(session)
    \/ \E session \in Sessions : TaskSendCommand(session)

(***************************************************************************)
(* Handler registration (packet_versions/version_20220406.rs).             *)
(***************************************************************************)
\* the packet types register_login_server_packets registers, in order
LoginServerPackets_repeated ==
    <<"LoginServerLoginSuccessPacket", "LoginFailedPacket", "LoginFailedPacket2",
      "LoginFailedPacket">>

LoginServerPackets ==
    <<"LoginServerLoginSuccessPacket", "LoginFailedPacket", "LoginFailedPacket2">>

\* the packet types register_character_server_packets registers, in order
CharacterServerPackets ==
    <<"LoginFailedPacket", "CharacterServerLoginSuccessPacket",
      "RequestCharacterListSuccessPacket", "CharacterListPacket", "CharacterSlotPagePacket",
      "CharacterBanListPacket", "LoginPincodePacket", "Packet0b18",
      "CharacterSelectionSuccessPacket", "CharacterSelectionFailedPacket",
      "MapServerUnavailablePacket", "CreateCharacterSuccessPacket",
      "CharacterCreationFailedPacket", "CharacterDeletionSuccessPacket",
      "CharacterDeletionFailedPacket", "SwitchCharacterSlotResponsePacket">>

\* the packet types register_map_server_packets registers, in order
MapServerPackets ==
    <<"MapServerPingPacket", "BroadcastMessagePacket", "Broadcast2MessagePacket",
      "OverheadMessagePacket", "ServerMessagePacket", "MessageTablePacket", "EntityMessagePacket",
      "DisplayEmotionPacket", "EntityMovePacket", "EntityStopMovePacket", "PlayerMovePacket",
      "ChangeMapPacket", "ResurrectionPacket", "EntityAppearedPacket", "EntityAppeared2Packet",
      "MovingEntityAppearedPacket", "EntityDisappearedPacket", "UpdateStatPacket",
      "UpdateStatPacket1", "UpdateStatPacket2", "UpdateStatPacket3", "UpdateAttackRangePacket",
      "NewMailStatusPacket", "AchievementUpdatePacket", "AchievementListPacket",
      "CriticalWeightUpdatePacket", "SpriteChangePacket", "InventoyStartPacket",
      "RegularItemListPacket", "EquippableItemListPacket", "InventoyEndPacket",
      "EquippableSwitchItemListPacket", "MapTypePacket", "UpdateSkillTreePacket",
      "UpdateHotkeysPacket", "InitialStatsPacket", "UpdatePartyInvitationStatePacket",
      "UpdateShowEquipPacket", "UpdateConfigurationPacket", "NavigateToMonsterPacket",
      "MarkMinimapPositionPacket", "NextButtonPacket", "CloseButtonPacket", "DialogMenuPacket",
      "DisplaySpecialEffectPacket", "DisplaySkillCooldownPacket",
      "DisplaySkillEffectAndDamagePacket", "DisplaySkillEffectNoDamagePacket",
      "DisplayPlayerHealEffect", "StatusChangePacket", "QuestNotificationPacket1",
      "HuntingQuestNotificationPacket", "HuntingQuestUpdateObjectivePacket", "QuestRemovedPacket",
      "QuestListPacket", "VisualEffectPacket", "DisplayGainedExperiencePacket",
      "DisplayImagePacket", "StateChangePacket", "QuestEffectPacket", "ItemPickupPacket",
      "RemoveItemFromInventoryPacket", "ServerTickPacket", "RequestPlayerDetailsSuccessPacket",
      "RequestEntityDetailsSuccessPacket", "UpdateEntityHealthPointsPacket",
      "RequestPlayerAttackFailedPacket", "DamagePacket1", "DamagePacket3", "NpcDialogPacket",
      "RequestEquipItemStatusPacket", "RequestUnequipItemStatusPacket", "Packet8302",
      "Packet0b18", "MapServerLoginSuccessPacket", "RestartResponsePacket",
      "DisconnectResponsePacket", "UseSkillSuccessPacket", "ToUseSkillSuccessPacket",
      "NotifySkillUnitPacket", "SkillUnitDisappearPacket", "NotifyGroundSkillPacket",
      "FriendListPacket", "FriendOnlineStatusPacket", "FriendRequestPacket",
      "FriendRequestResultPacket", "NotifyFriendRemovedPacket", "PartyInvitePacket",
      "StatusChangeSequencePacket", "ReputationPacket", "ClanInfoPacket", "ClanOnlineCountPacket",
      "ChangeMapCellPacket", "OpenMarketPacket", "BuyOrSellPacket", "ShopItemListPacket",
      "BuyShopItemsResultPacket", "ParameterChangePacket", "SellListPacket",
      "SellItemsResultPacket", "RequestStatUpResponsePacket", "EquipAmmunitionPacket",
      "AmmunitionActionPacket">>

\* packet types a caller may have registered on the handler beforehand
RegisteredBeforehand ==
    {"LoginFailedPacket", "LoginFailedPacket2", "SwitchCharacterSlotResponsePacket",
     "Packet0b18", "AmmunitionActionPacket"}

\* PacketHandler::register / register_noop: one handler per packet type
register(handlers, type) ==
    IF type \in handlers
    THEN [handlers |-> handlers, result |-> "DuplicateHandlerError"]
    ELSE [handlers |-> handlers \cup {type}, result |-> "Ok"]

\* the statements from..to of a registration function that remembers the
\* first error and runs the statements after it all the same
RECURSIVE RegisterRange_continue(_, _, _, _)
RegisterRange_continue(handlers, types, from, to) ==
    IF from > to
    THEN [handlers |-> handlers, result |-> "Ok", duplicate |-> "None"]
    ELSE IF from = to
    THEN LET registered == register(handlers, types[from])
         IN [handlers |-> registered.handlers, result |-> registered.result,
             duplicate |-> IF registered.result = "Ok" THEN "None" ELSE types[from]]
    ELSE LET middle == (from + to) \div 2
             first == RegisterRange_continue(handlers, types, from, middle)
             second == RegisterRange_continue(first.handlers, types, middle + 1, to)
         IN IF first.result # "Ok"
            THEN [handlers |-> second.handlers, result |-> first.result,
                  duplicate |-> first.duplicate]
            ELSE second

\* packet_handler.register(..)?; for the statements from..to of a
\* registration function, in order: the ? returns the first error and the
\* statements after it do not run. The range is run as its first half
\* followed by its second half.
RECURSIVE RegisterRange(_, _, _, _)
RegisterRange(handlers, types, from, to) ==
    IF from > to
    THEN [handlers |-> handlers, result |-> "Ok", duplicate |-> "None"]
    ELSE IF from = to
    THEN LET registered == register(handlers, types[from])
         IN [handlers |-> registered.handlers, result |-> registered.result,
             duplicate |-> IF registered.result = "Ok" THEN "None" ELSE types[from]]
    ELSE LET middle == (from + to) \div 2
             first == RegisterRange(handlers, types, from, middle)
         IN IF first.result # "Ok"
            THEN first
            ELSE RegisterRange(first.handlers, types, middle + 1, to)

\* the body of a registration function: every statement, then Ok(())
RegisterAll(handlers, types) == RegisterRange(handlers, types, 1, Len(types))

\* the record of a registration call made on the handler as it is
Registration(function, returned) ==
    [function |-> function, before |-> packet_handler, result |-> returned.result,
     duplicate |-> returned.duplicate]

RegistryInit ==
    /\ packet_handler = {}
    /\ registration = [function |-> "new", before |-> {}, result |-> "Ok", duplicate |-> "None"]

RegistryFrame ==
    UNCHANGED <<offline_vars, map_vars, login_vars, character_vars, net_vars, pool_vars, hotbar_vars, world_vars>>

\* the caller registers one handler of its own
RegisterHandler(type) ==
    /\ LET registered == register(packet_handler, type)
       IN /\ packet_handler' = registered.handlers
          /\ registration' =
               Registration("register",
                            [result |-> registered.result,
                             duplicate |-> IF registered.result = "Ok" THEN "None" ELSE type])
    /\ RegistryFrame

register_login_server_packets ==
    /\ LET returned == RegisterAll(packet_handler, LoginServerPackets)
       IN /\ packet_handler' = returned.handlers
          /\ registration' = Registration("register_login_server_packets", returned)
    /\ RegistryFrame

register_character_server_packets ==
    /\ LET returned == RegisterAll(packet_handler, CharacterServerPackets)
       IN /\ packet_handler' = returned.handlers
          /\ registration' = Registration("register_character_server_packets", returned)
    /\ RegistryFrame

register_map_server_packets ==
    /\ LET returned == RegisterAll(packet_handler, MapServerPackets)
       IN /\ packet_handler' = returned.handlers
          /\ registration' = Registration("register_map_server_packets", returned)
    /\ RegistryFrame

RegistryNext ==
    \/ \E type \in RegisteredBeforehand : RegisterHandler(type)
    \/ register_login_server_packets
    \/ register_character_server_packets
    \/ register_map_server_packets

(***************************************************************************)
(* ScopedThreadPool (korangar_util/src/thread.rs).                         *)
(***************************************************************************)
\* THREAD_NUM of spawn::<THREAD_NUM, _>
Threads == 0..(THREAD_COUNT - 1)

\* a Mutex that nobody holds
Unlocked == "None"

\* ScopeData::increment_num_running_threads (the overflow check is out of reach)
increment_num_running_threads(data) ==
    [data EXCEPT !.num_running_threads = @ + 1]

\* a decrement that does not record the panic
decrement_num_running_threads_quiet(data, panic) ==
    [data EXCEPT !.num_running_threads = @ - 1]

\* ScopeData::decrement_num_running_threads
decrement_num_running_threads(data, panic) ==
    [num_running_threads |-> data.num_running_threads - 1,
     a_thread_panicked |-> data.a_thread_panicked \/ panic]

\* a scope that does not wait for the running threads
AllThreadsFinished_nowait(data) == TRUE

\* while num_running_threads.load(Acquire) != 0 { park() }: the loop is left
AllThreadsFinished(data) == data.num_running_threads = 0

\* match result { Err(e) => resume_unwind(e), Ok(_) if a_thread_panicked => panic!(..), Ok(()) => {} }
ScopeOutcome(result, data) ==
    IF result = "Err" \/ data.a_thread_panicked THEN "Panicked" ELSE "Returned"

\* ScopedThreadPool::new
PoolInit ==
    /\ pool_main = "Idle"
    /\ pool_spawn = [thread |-> 0, closure |-> 0]
    /\ function_result = "Ok"
    /\ scope_data = [num_running_threads |-> 0, a_thread_panicked |-> FALSE]
    /\ start_signals = [t \in Threads |-> [start |-> FALSE, owner |-> Unlocked, poisoned |-> FALSE]]
    /\ work_channels = [t \in Threads |->
                          [closure |-> 0, called |-> FALSE, owner |-> Unlocked, poisoned |-> FALSE]]
    /\ worker = [t \in Threads |-> "Waiting"]
    /\ closures = <<>>
    /\ scope_calls = <<>>

PoolFrame ==
    UNCHANGED <<offline_vars, map_vars, login_vars, character_vars, net_vars, registry_vars,
                hotbar_vars, world_vars>>

\* the history entry of closure n with a new status
Became(n, status) == [closures EXCEPT ![n].status = status]

\* pool.scope(function): function starts to run
scope ==
    /\ pool_main = "Idle"
    /\ Len(scope_calls) < MaxScopes
    /\ pool_main' = "InFunction"
    /\ function_result' = "Ok"
    /\ scope_calls' = Append(scope_calls, "Running")
    /\ UNCHANGED <<pool_spawn, scope_data, start_signals, work_channels, worker, closures>>
    /\ PoolFrame

\* Scope::spawn up to channel.called = false: the closure is written into
\* the worker's channel, over whatever the channel holds; a poisoned
\* channel mutex panics in unwrap()
spawn(thread, panics) ==
    /\ pool_main = "InFunction"
    /\ Len(closures) < MaxSpawns
    /\ work_channels[thread].owner = Unlocked
    /\ LET closure == Len(closures) + 1
           passed == Append(closures,
                            [scope |-> Len(scope_calls), thread |-> thread, panics |-> panics,
                             status |-> "Stored", runs |-> 0, ran_on |-> thread])
           stored == work_channels[thread].closure
       IN IF work_channels[thread].poisoned
          THEN /\ closures' = [passed EXCEPT ![closure].status = "Dropped"]
               /\ function_result' = "Err"
               /\ pool_main' = "Joining"
               /\ UNCHANGED <<pool_spawn, work_channels>>
          ELSE /\ closures' = IF stored # 0 /\ ~work_channels[thread].called
                              THEN [passed EXCEPT ![stored].status = "Overwritten"]
                              ELSE passed
               /\ work_channels' = [work_channels EXCEPT
                                      ![thread] = [closure |-> closure, called |-> FALSE,
                                                   owner |-> "Main", poisoned |-> FALSE]]
               /\ pool_spawn' = [thread |-> thread, closure |-> closure]
               /\ pool_main' = "Spawning"
               /\ UNCHANGED function_result
    /\ UNCHANGED <<scope_data, start_signals, worker, scope_calls>>
    /\ PoolFrame

\* Scope::spawn from the start signal's lock to the end: start is set, the
\* counter incremented, the worker notified, both guards dropped
spawn_notify ==
    /\ pool_main = "Spawning"
    /\ start_signals[pool_spawn.thread].owner = Unlocked
    /\ ~start_signals[pool_spawn.thread].poisoned
    /\ start_signals' = [start_signals EXCEPT ![pool_spawn.thread].start = TRUE]
    /\ scope_data' = increment_num_running_threads(scope_data)
    /\ work_channels' = [work_channels EXCEPT ![pool_spawn.thread].owner = Unlocked]
    /\ pool_spawn' = [thread |-> 0, closure |-> 0]
    /\ pool_main' = "InFunction"
    /\ UNCHANGED <<function_result, worker, closures, scope_calls>>
    /\ PoolFrame

\* function returns, or panics in code of its own
function_ends(panics) ==
    /\ pool_main = "InFunction"
    /\ function_result' = IF panics THEN "Err" ELSE "Ok"
    /\ pool_main' = "Joining"
    /\ UNCHANGED <<pool_spawn, scope_data, start_signals, work_channels, worker, closures,
                   scope_calls>>
    /\ PoolFrame

\* scope after catch_unwind(function): the wait for the threads, then the result
scope_join ==
    /\ pool_main = "Joining"
    /\ AllThreadsFinished(scope_data)
    /\ scope_calls' = [scope_calls EXCEPT
                         ![Len(scope_calls)] = ScopeOutcome(function_result, scope_data)]
    /\ pool_main' = "Idle"
    /\ UNCHANGED <<pool_spawn, function_result, scope_data, start_signals, work_channels,
                   worker, closures>>
    /\ PoolFrame

\* thread_loop: lock.lock(), while !*start { condvar.wait(start) } is left
\* with the start mutex held
thread_start(thread) ==
    /\ worker[thread] = "Waiting"
    /\ start_signals[thread].owner = Unlocked
    /\ start_signals[thread].start
    /\ start_signals' = [start_signals EXCEPT ![thread].owner = "Worker"]
    /\ worker' = [worker EXCEPT ![thread] = "Started"]
    /\ UNCHANGED <<pool_main, pool_spawn, function_result, scope_data, work_channels,
                   closures, scope_calls>>
    /\ PoolFrame

\* thread_loop: work_channel.lock(), with the start mutex held
thread_lock_channel(thread) ==
    /\ worker[thread] = "Started"
    /\ work_channels[thread].owner = Unlocked
    /\ work_channels' = [work_channels EXCEPT ![thread].owner = "Worker"]
    /\ worker' = [worker EXCEPT ![thread] = "Locked"]
    /\ UNCHANGED <<pool_main, pool_spawn, function_result, scope_data, start_signals,
                   closures, scope_calls>>
    /\ PoolFrame

\* thread_loop: if !channel.called { (channel.call)(..) }: the closure starts to run
thread_call(thread) ==
    /\ worker[thread] = "Locked"
    /\ LET closure == work_channels[thread].closure
       IN IF work_channels[thread].called \/ closure = 0
          THEN /\ worker' = [worker EXCEPT ![thread] = "Called"]
               /\ UNCHANGED closures
          ELSE /\ worker' = [worker EXCEPT ![thread] = "Calling"]
               /\ closures' = [closures EXCEPT ![closure].status = "Running",
                                               ![closure].runs = @ + 1,
                                               ![closure].ran_on = thread]
    /\ UNCHANGED <<pool_main, pool_spawn, function_result, scope_data, start_signals,
                   work_channels, scope_calls>>
    /\ PoolFrame

\* thread_loop: the closure returns; channel.called = true
thread_called(thread) ==
    /\ worker[thread] = "Calling"
    /\ ~closures[work_channels[thread].closure].panics
    /\ closures' = Became(work_channels[thread].closure, "Done")
    /\ work_channels' = [work_channels EXCEPT ![thread].called = TRUE]
    /\ worker' = [worker EXCEPT ![thread] = "Called"]
    /\ UNCHANGED <<pool_main, pool_spawn, function_result, scope_data, start_signals,
                   scope_calls>>
    /\ PoolFrame

\* thread_loop: data.decrement_num_running_threads(false)
thread_decrement(thread) ==
    /\ worker[thread] = "Called"
    /\ scope_data' = decrement_num_running_threads(scope_data, FALSE)
    /\ worker' = [worker EXCEPT ![thread] = "Finishing"]
    /\ UNCHANGED <<pool_main, pool_spawn, function_result, start_signals, work_channels,
                   closures, scope_calls>>
    /\ PoolFrame

\* thread_loop: *start = false; the guards of both mutexes are dropped at
\* the end of the loop body
thread_finish(thread) ==
    /\ worker[thread] = "Finishing"
    /\ start_signals' = [start_signals EXCEPT ![thread].start = FALSE,
                                               ![thread].owner = Unlocked]
    /\ work_channels' = [work_channels EXCEPT ![thread].owner = Unlocked]
    /\ worker' = [worker EXCEPT ![thread] = "Waiting"]
    /\ UNCHANGED <<pool_main, pool_spawn, function_result, scope_data, closures, scope_calls>>
    /\ PoolFrame

\* thread_loop: the closure panics; unwinding drops both guards, which
\* poisons the mutexes, and catch_unwind catches the panic
thread_panic(thread) ==
    /\ worker[thread] = "Calling"
    /\ closures[work_channels[thread].closure].panics
    /\ closures' = Became(work_channels[thread].closure, "Panicked")
    /\ start_signals' = [start_signals EXCEPT ![thread].owner = Unlocked,
                                               ![thread].poisoned = TRUE]
    /\ work_channels' = [work_channels EXCEPT ![thread].owner = Unlocked,
                                               ![thread].poisoned = TRUE]
    /\ worker' = [worker EXCEPT ![thread] = "Unwound"]
    /\ UNCHANGED <<pool_main, pool_spawn, function_result, scope_data, scope_calls>>
    /\ PoolFrame

\* thread_loop: .is_err() { data.decrement_num_running_threads(true) }; the thread ends
thread_exit(thread) ==
    /\ worker[thread] = "Unwound"
    /\ scope_data' = decrement_num_running_threads(scope_data, TRUE)
    /\ worker' = [worker EXCEPT ![thread] = "Exited"]
    /\ UNCHANGED <<pool_main, pool_spawn, function_result, start_signals, work_channels,
                   closures, scope_calls>>
    /\ PoolFrame

PoolNext ==
    \/ scope
    \/ \E thread \in Threads, panics \in BOOLEAN : spawn(thread, panics)
    \/ spawn_notify
    \/ \E panics \in BOOLEAN : function_ends(panics)
    \/ scope_join
    \/ \E thread \in Threads : thread_start(thread)
    \/ \E thread \in Threads : thread_lock_channel(thread)
    \/ \E thread \in Threads : thread_call(thread)
    \/ \E thread \in Threads : thread_called(thread)
    \/ \E thread \in Threads : thread_decrement(thread)
    \/ \E thread \in Threads : thread_finish(thread)
    \/ \E thread \in Threads : thread_panic(thread)
    \/ \E thread \in Threads : thread_exit(thread)

(***************************************************************************)
(* Hotbar (korangar/src/inventory/hotbar.rs).                              *)
(***************************************************************************)
HotbarSlots == 0..MaxSlot

\* Skill: the fields the hotbar reads
Skills == [skill_id : 1..MaxSkillId, skill_level : 1..MaxSkillLevel]

\* Option<Skill>::None
NoSkill == [skill_id |-> 0, skill_level |-> 0]

\* HotkeyData::UNBOUND
UNBOUND == [is_skill |-> 0, skill_id |-> 0, quantity_or_skill_level |-> 0]

\* what set_hotkey_data may return
ProviderResults == {"Ok", "NotConnectedError"}

\* skill.as_ref().map(|skill| HotkeyData {..}).unwrap_or(HotkeyData::UNBOUND)
HotkeyDataOf(skill) ==
    IF skill = NoSkill
    THEN UNBOUND
    ELSE [is_skill |-> 1, skill_id |-> skill.skill_id,
          quantity_or_skill_level |-> skill.skill_level]

\* provider.set_hotkey_data(tab, index, hotkey_data): the command the provider receives
set_hotkey_data(tab, index, hotkey_data) ==
    [tab |-> tab, index |-> index, hotkey_data |-> hotkey_data]

\* the outcome of a Hotbar call: the slots after it and the commands it issued
HotbarOutcome(slots, commands) == [skills |-> slots, commands |-> commands]

update_slot_checked(hotbar, results, slot, skill) ==
    HotbarOutcome(IF results[1] = "Ok" THEN [hotbar EXCEPT ![slot] = skill] ELSE hotbar,
                  <<set_hotkey_data(0, slot, HotkeyDataOf(skill))>>)

\* Hotbar::update_slot; results are the values set_hotkey_data returns, which
\* the `let _ =` drops
update_slot(hotbar, results, slot, skill) ==
    HotbarOutcome([hotbar EXCEPT ![slot] = skill],
                  <<set_hotkey_data(0, slot, HotkeyDataOf(skill))>>)

\* Hotbar::clear_slot
clear_slot(hotbar, results, slot) ==
    HotbarOutcome([hotbar EXCEPT ![slot] = NoSkill],
                  <<set_hotkey_data(0, slot, UNBOUND)>>)

swap_slot_crossed(hotbar, results, source_slot, destination_slot) ==
    IF source_slot # destination_slot
    THEN LET first == hotbar[source_slot]
             second == hotbar[destination_slot]
         IN  HotbarOutcome([hotbar EXCEPT ![source_slot] = second,
                                          ![destination_slot] = first],
                           <<set_hotkey_data(0, destination_slot, HotkeyDataOf(second)),
                             set_hotkey_data(0, source_slot, HotkeyDataOf(first))>>)
    ELSE HotbarOutcome(hotbar, <<>>)

\* Hotbar::swap_slot
swap_slot(hotbar, results, source_slot, destination_slot) ==
    IF source_slot # destination_slot
    THEN LET first == hotbar[source_slot]
             second == hotbar[destination_slot]
             taken == [hotbar EXCEPT ![source_slot] = NoSkill,
                                     ![destination_slot] = NoSkill]
         IN  HotbarOutcome([taken EXCEPT ![source_slot] = second,
                                         ![destination_slot] = first],
                           <<set_hotkey_data(0, destination_slot, HotkeyDataOf(first)),
                             set_hotkey_data(0, source_slot, HotkeyDataOf(second))>>)
    ELSE HotbarOutcome(hotbar, <<>>)

\* Hotbar::default()
HotbarInit ==
    /\ skills = [slot \in HotbarSlots |-> NoSkill]
    /\ hotbar_call = [n |-> 0, op |-> "default", args |-> <<>>, results |-> <<>>,
                      commands |-> <<>>, before |-> [slot \in HotbarSlots |-> NoSkill]]

HotbarFrame ==
    UNCHANGED <<offline_vars, map_vars, login_vars, character_vars, net_vars, registry_vars,
                pool_vars, world_vars>>

\* one Hotbar call: its outcome becomes the hotbar, the history keeps the call
HotbarCall(op, args, results, outcome) ==
    /\ hotbar_call.n < MaxHotbarCalls
    /\ skills' = outcome.skills
    /\ hotbar_call' = [n |-> hotbar_call.n + 1, op |-> op, args |-> args,
                       results |-> SubSeq(results, 1, Len(outcome.commands)),
                       commands |-> outcome.commands, before |-> skills]
    /\ HotbarFrame

UpdateSlot ==
    \E slot \in HotbarSlots, skill \in Skills, result \in ProviderResults :
        HotbarCall("update_slot", <<slot, skill>>, <<result>>,
                   update_slot(skills, <<result>>, slot, skill))

ClearSlot ==
    \E slot \in HotbarSlots, result \in ProviderResults :
        HotbarCall("clear_slot", <<slot>>, <<result>>, clear_slot(skills, <<result>>, slot))

SwapSlot ==
    \E source_slot \in HotbarSlots, destination_slot \in HotbarSlots,
       first \in ProviderResults, second \in ProviderResults :
        HotbarCall("swap_slot", <<source_slot, destination_slot>>, <<first, second>>,
                   swap_slot(skills, <<first, second>>, source_slot, destination_slot))

HotbarNext ==
    \/ UpdateSlot
    \/ ClearSlot
    \/ SwapSlot

(***************************************************************************)
(* GameState (korangar/src/world/entity2/mod.rs).  An entity handle of     *)
(* hecs is an index with a generation; the model hands out a new number    *)
(* for every spawn, which is what the generation makes of a reused index.  *)
(***************************************************************************)
EntityIds == 1..MaxEntityId

\* Option<Entity>
NoEntity == [is_some |-> FALSE, entity |-> 0]

SomeEntity(entity) == [is_some |-> TRUE, entity |-> entity]

\* World::despawn: an entity that is not alive is left alone (the Err is dropped)
despawn(entities, entity) == [e \in DOMAIN entities \ {entity} |-> entities[e]]

\* World::spawn: the bundle lives under a handle never handed out before
world_spawn(entities, entity, identifier) ==
    [e \in DOMAIN entities \cup {entity} |->
        IF e = entity THEN identifier ELSE entities[e]]

\* HashMap::remove
mapping_remove(mapping, id) == [i \in DOMAIN mapping \ {id} |-> mapping[i]]

\* HashMap::insert
mapping_insert(mapping, id, entity) ==
    [i \in DOMAIN mapping \cup {id} |-> IF i = id THEN entity ELSE mapping[i]]

WorldInit ==
    /\ world = <<>>
    /\ entity_mapping = <<>>
    /\ player_entity = NoEntity
    /\ spawned = 0
    /\ game_panicked = FALSE

WorldFrame ==
    UNCHANGED <<offline_vars, map_vars, login_vars, character_vars, net_vars, registry_vars,
                pool_vars, hotbar_vars>>

\* GameState::clear
clear ==
    /\ ~game_panicked
    /\ world' = <<>>
    /\ entity_mapping' = <<>>
    /\ player_entity' = NoEntity
    /\ UNCHANGED <<spawned, game_panicked>>
    /\ WorldFrame

\* GameState::spawn_player; entity_id is the id of the new player's identifier
spawn_player(entity_id) ==
    /\ ~game_panicked
    /\ spawned < MaxWorldSpawns
    /\ IF player_entity.is_some /\ player_entity.entity \notin DOMAIN world
       THEN \* query_one_mut(player_entity).unwrap() on an entity that is gone
            /\ game_panicked' = TRUE
            /\ UNCHANGED <<world, entity_mapping, player_entity, spawned>>
       ELSE LET despawned ==
                    IF player_entity.is_some
                    THEN [world |-> despawn(world, player_entity.entity),
                          mapping |-> mapping_remove(entity_mapping,
                                                     world[player_entity.entity].id)]
                    ELSE [world |-> world, mapping |-> entity_mapping]
                entity == spawned + 1
            IN  /\ world' = world_spawn(despawned.world, entity,
                                        [id |-> entity_id, bundle |-> "PlayerBundle"])
                /\ entity_mapping' = mapping_insert(despawned.mapping, entity_id, entity)
                /\ player_entity' = SomeEntity(entity)
                /\ spawned' = entity
                /\ UNCHANGED game_panicked
    /\ WorldFrame

\* GameState::spawn_npc
spawn_npc(entity_id) ==
    /\ ~game_panicked
    /\ spawned < MaxWorldSpawns
    /\ LET despawned ==
               IF entity_id \in DOMAIN entity_mapping
               THEN [world |-> despawn(world, entity_mapping[entity_id]),
                     mapping |-> mapping_remove(entity_mapping, entity_id)]
               ELSE [world |-> world, mapping |-> entity_mapping]
           entity == spawned + 1
       IN  /\ world' = world_spawn(despawned.world, entity,
                                   [id |-> entity_id, bundle |-> "NpcBundle"])
           /\ entity_mapping' = mapping_insert(despawned.mapping, entity_id, entity)
           /\ spawned' = entity
    /\ UNCHANGED <<player_entity, game_panicked>>
    /\ WorldFrame

WorldNext ==
    \/ clear
    \/ \E entity_id \in EntityIds : spawn_player(entity_id)
    \/ \E entity_id \in EntityIds : spawn_npc(entity_id)

Init ==
    /\ OfflineInit /\ MapInit /\ LoginInit /\ CharacterInit /\ NetInit /\ RegistryInit
    /\ PoolInit /\ HotbarInit /\ WorldInit

SpecOffline == Init /\ [][OfflineNext]_vars

SpecMap == Init /\ [][MapNext]_vars

SpecLogin == Init /\ [][LoginNext]_vars

SpecCharacter == Init /\ [][CharacterNext]_vars

SpecNet == Init /\ [][NetNext]_vars

SpecMerge == Init /\ [][MergeNext]_vars

SpecRegistry == Init /\ [][RegistryNext]_vars

\* the thread pool on its own: the network provider stays as constructed
InitPool == Init /\ net_phase = "Login"

SpecPool == InitPool /\ [][PoolNext]_vars

\* a map session and a character session that receive no-op packets, the
\* map session also the packets of the inventory sequence
FramedNext ==
    \/ MapSessionStart
    \/ Len(map_trace) + Len(character_trace) < MaxFramedPackets /\ HandleInventoyStartPacket
    \/ Len(map_trace) + Len(character_trace) < MaxFramedPackets /\ HandleRegularItemListPacket
    \/ Len(map_trace) + Len(character_trace) < MaxFramedPackets /\ HandleInventoyEndPacket
    \/ Len(map_trace) + Len(character_trace) < MaxFramedPackets /\ HandleMapNoopPacket
    \/ Len(map_trace) + Len(character_trace) < MaxFramedPackets /\ HandleCharacterNoopPacket

\* the two sessions on their own: the network provider stays as constructed
InitFramed == Init /\ net_phase = "Login"

SpecFramed == InitFramed /\ [][FramedNext]_vars

\* the steps a worker thread takes on its own
ThreadStep(thread) ==
    \/ thread_start(thread)
    \/ thread_lock_channel(thread)
    \/ thread_call(thread)
    \/ thread_called(thread)
    \/ thread_decrement(thread)
    \/ thread_finish(thread)
    \/ thread_panic(thread)
    \/ thread_exit(thread)

\* the steps of the owner thread inside spawn and inside scope after function
OwnerStep == spawn_notify \/ scope_join

\* fair scheduling: a thread that can take a step eventually takes one
SpecPoolFair ==
    /\ SpecPool
    /\ WF_vars(OwnerStep)
    /\ \A thread \in Threads : WF_vars(ThreadStep(thread))

\* the success packets of a sign-in: the login server's, then the character server's
SignInNext ==
    \/ /\ Len(login_trace) + Len(character_trace) < MaxSuccessPackets
       /\ HandleLoginServerLoginSuccessPacket
    \/ /\ Len(login_trace) + Len(character_trace) < MaxSuccessPackets
       /\ HandleCharacterSelectionSuccessPacket

SpecSignIn == Init /\ [][SignInNext]_vars

InitFriend == Init /\ net_phase = "Login"

SpecFriend == InitFriend /\ [][FriendNext]_vars

InitHotbar == Init /\ net_phase = "Login"

SpecHotbar == InitHotbar /\ [][HotbarNext]_vars

InitWorld == Init /\ net_phase = "Login"

SpecWorld == InitWorld /\ [][WorldNext]_vars

\* the game loop polls get_events once per tick
SpecNetFair == SpecNet /\ WF_vars(NetGetEvents)

(***************************************************************************)
(* Properties of the offline provider.                                     *)
(***************************************************************************)
\* the calls that are commands returning Result<(), NotConnectedError>
CommandOps ==
    {"request_character_list", "request_client_tick", "noop_command",
     "unimplemented_command"}

\* the last call was a command whose phase was not connected
CommandWhileNotConnected ==
    /\ off_call.op \in CommandOps
    /\ ~WasConnected(off_call, off_call.phase)

\* C1: a command called while its phase is not connected returns
\* NotConnectedError and leaves the provider's pending events as they were
\* (the offline provider has no outbound queue).
C1_NotConnectedCommandFails ==
    CommandWhileNotConnected =>
        /\ off_result = "NotConnectedError"
        /\ event_buffer = off_call.event_buffer

\* the get_events calls that delivered the produced event with this index
DeliveriesOf(seq) == {j \in 1..Len(delivery) : delivery[j].seq = seq}

\* C2: every produced event is delivered by exactly one get_events call, the
\* first one made after it was produced: not by an earlier call, not twice;
\* so a call that directly follows another call delivers nothing.
C2_DeliveredExactlyOnce ==
    /\ \A i \in 1..Len(produced) :
         IF produced[i].after_call < calls
         THEN /\ Cardinality(DeliveriesOf(produced[i].seq)) = 1
              /\ \A j \in DeliveriesOf(produced[i].seq) :
                   delivery[j].call = produced[i].after_call + 1
         ELSE DeliveriesOf(produced[i].seq) = {}
    /\ \A j \in 1..Len(delivery) :
         \E i \in 1..Len(produced) : produced[i].seq = delivery[j].seq
    /\ \A c \in 1..calls :
         Cardinality({j \in 1..Len(delivery) : delivery[j].call = c})
           = Cardinality({i \in 1..Len(produced) : produced[i].after_call = c - 1})

\* two polls, events produced before the first and between the two, all delivered
C2_Witness ==
    /\ calls = 2
    /\ \E i \in 1..Len(produced) : produced[i].after_call = 0
    /\ \E i \in 1..Len(produced) : produced[i].after_call = 1
    /\ Len(delivery) = Len(produced)

\* the buffer entries of the produced events, in production order
ProductionOrder ==
    [i \in 1..Len(produced) |-> [event |-> produced[i].event, seq |-> produced[i].seq]]

\* C3: what the caller took out of its buffers, then what its buffer holds,
\* then what is still pending, is the production order: get_events appends
\* in production order behind what the buffer held, with a reused buffer and
\* with a fresh one.
C3_DeliveredInProductionOrder ==
    consumed \o events \o event_buffer = ProductionOrder

\* a reused buffer that holds the events of the first and of the second poll
C3_Witness ==
    /\ off_call.op = "get_events"
    /\ consumed = <<>>
    /\ Len(events) = Len(delivery)
    /\ \E a, b \in 1..Len(delivery) : delivery[a].call = 1 /\ delivery[b].call = 2

(***************************************************************************)
(* Properties of the inventory reassembly.                                 *)
(***************************************************************************)
IsItemList(packet) ==
    packet.kind \in {"RegularItemListPacket", "EquippableItemListPacket"}

\* the inventory items an item-list packet stands for
ExpectedItems(packet) ==
    [n \in 1..Len(packet.items) |->
       [index |-> packet.items[n].index,
        details |-> IF packet.kind = "RegularItemListPacket"
                    THEN "Regular" ELSE "Equippable"]]

\* the items of the item-list packets at positions lo..hi, in arrival order
RECURSIVE ItemsBetween(_, _)
ItemsBetween(lo, hi) ==
    IF lo > hi THEN <<>>
    ELSE (IF IsItemList(map_trace[lo]) THEN ExpectedItems(map_trace[lo]) ELSE <<>>)
           \o ItemsBetween(lo + 1, hi)

\* positions i < j hold a Start and an End of one session with only
\* item-list packets between them
WellFormed(i, j) ==
    /\ i < j
    /\ map_trace[i].kind = "InventoyStartPacket"
    /\ map_trace[j].kind = "InventoyEndPacket"
    /\ map_trace[i].session = map_trace[j].session
    /\ \A k \in (i + 1)..(j - 1) : IsItemList(map_trace[k])

\* the sequence at i..j yields one SetInventory, from End, with its items
YieldsOneSetInventory(i, j) ==
    /\ \A k \in i..(j - 1) : map_trace[k].events = <<>> /\ ~map_trace[k].panic
    /\ ~map_trace[j].panic
    /\ map_trace[j].events = <<SetInventory(ItemsBetween(i + 1, j - 1))>>

\* C4: Start, n >= 0 item-list packets, End: exactly one SetInventory,
\* emitted by End, whose items are the packets' items in arrival order;
\* Start and the item lists emit nothing.
C4_ReassemblyYieldsOneSetInventory ==
    \A i, j \in 1..Len(map_trace) : WellFormed(i, j) => YieldsOneSetInventory(i, j)

\* a regular and an equippable list of three items in all, then End
C4_Witness ==
    \E i, j \in 1..Len(map_trace) :
        /\ WellFormed(i, j)
        /\ j = i + 3
        /\ map_trace[i + 1].kind = "RegularItemListPacket"
        /\ map_trace[i + 2].kind = "EquippableItemListPacket"
        /\ Len(map_trace[i + 1].items) = 2
        /\ Len(map_trace[i + 2].items) = 1
        /\ Len(map_trace[j].events) = 1

\* C5: an item-list packet handled with no active accumulator does not
\* panic and yields no SetInventory.
C5_ItemListWithoutStartIsHarmless ==
    \A i \in 1..Len(map_trace) :
        (IsItemList(map_trace[i]) /\ ~map_trace[i].active) =>
            /\ ~map_trace[i].panic
            /\ \A n \in 1..Len(map_trace[i].events) :
                 map_trace[i].events[n].kind # "SetInventory"

\* an item list or End with no accumulator, or a Start with one
IsDesync(packet) ==
    \/ (IsItemList(packet) \/ packet.kind = "InventoyEndPacket") /\ ~packet.active
    \/ packet.kind = "InventoyStartPacket" /\ packet.active

\* C6: after a desync packet the session goes on, and the next well-formed
\* Start, item lists, End of that session yields exactly one SetInventory
\* with exactly its items.
C6_DesyncDoesNotCorrupt ==
    \A d \in 1..Len(map_trace) :
        IsDesync(map_trace[d]) =>
            /\ ~map_trace[d].panic
            /\ \A i, j \in (d + 1)..Len(map_trace) :
                 (WellFormed(i, j) /\ map_trace[i].session = map_trace[d].session)
                     => YieldsOneSetInventory(i, j)

\* C7: a Start handled while the accumulator is active ends in a fatal or a
\* logged error.
C7_SecondStartIsSignalled ==
    \A i \in 1..Len(map_trace) :
        (map_trace[i].kind = "InventoyStartPacket" /\ map_trace[i].active) =>
            (map_trace[i].panic \/ map_trace[i].logged)

\* the Start packets handled before position j
StartsBefore(j) == {i \in 1..(j - 1) : map_trace[i].kind = "InventoyStartPacket"}

Last(positions) == CHOOSE i \in positions : \A k \in positions : k <= i

InsideSequence ==
    \E i \in 1..Len(map_trace) :
        /\ map_trace[i].kind = "InventoyStartPacket"
        /\ map_trace[i].session = map_session
        /\ \A j \in (i + 1)..Len(map_trace) : map_trace[j].kind # "InventoyEndPacket"

\* C9: the accumulator is Some exactly between a Start and the next End of
\* the session, whatever other packets are handled.
C9_AccumulatorIffInsideSequence ==
    inventory_items.is_some <=> InsideSequence

\* Start, another packet, an item list, End: the accumulator is gone again
C9_Witness ==
    /\ Len(map_trace) = 4
    /\ map_trace[1].kind = "InventoyStartPacket"
    /\ map_trace[2].kind = "MapServerPingPacket"
    /\ IsItemList(map_trace[3])
    /\ map_trace[4].kind = "InventoyEndPacket"
    /\ ~inventory_items.is_some

(***************************************************************************)
(* Properties of the login failure translation.                            *)
(***************************************************************************)
IsLoginFailure(packet) == packet.kind \in {"LoginFailedPacket", "LoginFailedPacket2"}

\* C10: every LoginFailedPacket and LoginFailedPacket2, whatever its reason,
\* yields exactly one LoginServerConnectionFailed event with a canonical
\* reason and a message.
C10_LoginFailureTranslationTotal ==
    \A i \in 1..Len(login_trace) :
        IsLoginFailure(login_trace[i]) =>
            /\ Len(login_trace[i].events) = 1
            /\ login_trace[i].events[1].kind = "LoginServerConnectionFailed"
            /\ login_trace[i].events[1].reason \in UnifiedLoginFailedReason
            /\ login_trace[i].events[1].message # ""

\* a failure of each wire shape has been translated
C10_Witness ==
    /\ \E i \in 1..Len(login_trace) :
         /\ login_trace[i].kind = "LoginFailedPacket"
         /\ login_trace[i].payload = "AlreadyOnline"
         /\ Len(login_trace[i].events) = 1
    /\ \E i \in 1..Len(login_trace) :
         /\ login_trace[i].kind = "LoginFailedPacket2"
         /\ login_trace[i].payload = "CompanyAccountLimitReached"
         /\ Len(login_trace[i].events) = 1

\* C11: each wire login failure reason is translated to the canonical reason
\* of the same name, and a reason always comes with the same, fixed message;
\* a LoginFailedPacket2 with IncorrectPassword yields the one event
\* LoginServerConnectionFailed{IncorrectPassword, "Incorrect password"} and
\* nothing else.
C11_LoginFailureKeepsReason ==
    /\ \A i \in 1..Len(login_trace) :
         IsLoginFailure(login_trace[i]) =>
             /\ Len(login_trace[i].events) = 1
             /\ login_trace[i].events[1].reason = login_trace[i].payload
    /\ \A i, j \in 1..Len(login_trace) :
         (/\ IsLoginFailure(login_trace[i])
          /\ IsLoginFailure(login_trace[j])
          /\ login_trace[i].events[1].reason = login_trace[j].events[1].reason)
             => login_trace[i].events[1].message = login_trace[j].events[1].message
    /\ \A i \in 1..Len(login_trace) :
         (/\ login_trace[i].kind = "LoginFailedPacket2"
          /\ login_trace[i].payload = "IncorrectPassword")
             => login_trace[i].events =
                  <<[kind |-> "LoginServerConnectionFailed",
                     reason |-> "IncorrectPassword",
                     message |-> "Incorrect password"]>>

\* an IncorrectPassword failure and a failure of the other wire shape were translated
C11_Witness ==
    /\ \E i \in 1..Len(login_trace) :
         /\ login_trace[i].kind = "LoginFailedPacket2"
         /\ login_trace[i].payload = "IncorrectPassword"
         /\ Len(login_trace[i].events) = 1
    /\ \E i \in 1..Len(login_trace) :
         /\ login_trace[i].kind = "LoginFailedPacket"
         /\ login_trace[i].payload = "ServerClosed"
         /\ login_trace[i].events[1].reason = "ServerClosed"

\* C12: within one wire shape the translation is injective: two failures of
\* the same packet type with different wire reasons never get the same
\* canonical reason.
C12_LoginFailureTranslationInjective ==
    \A i, j \in 1..Len(login_trace) :
        (/\ IsLoginFailure(login_trace[i])
         /\ login_trace[i].kind = login_trace[j].kind
         /\ login_trace[i].payload # login_trace[j].payload)
            => /\ login_trace[i].events # <<>>
               /\ login_trace[j].events # <<>>
               /\ login_trace[i].events[1].reason # login_trace[j].events[1].reason

\* two different reasons of one wire shape were translated in one session
C12_Witness ==
    \E i, j \in 1..Len(login_trace) :
        /\ login_trace[i].kind = "LoginFailedPacket"
        /\ login_trace[j].kind = "LoginFailedPacket"
        /\ login_trace[i].payload = "AlreadyLoggedIn"
        /\ login_trace[j].payload = "AlreadyOnline"
        /\ login_trace[i].events[1].reason # login_trace[j].events[1].reason

IsCharacterSelectionFailure(packet) ==
    packet.kind \in {"CharacterSelectionFailedPacket", "MapServerUnavailablePacket"}

\* C13: every CharacterSelectionFailedPacket, whatever its reason, yields
\* exactly one CharacterSelectionFailed event (RejectedFromServer, "Rejected
\* from server"), and every MapServerUnavailablePacket yields exactly one
\* CharacterSelectionFailed event (MapServerUnavailable, "Map server
\* currently unavailable").
C13_CharacterSelectionFailureTranslated ==
    \A i \in 1..Len(character_trace) :
        /\ character_trace[i].kind = "CharacterSelectionFailedPacket" =>
              character_trace[i].events =
                <<[kind |-> "CharacterSelectionFailed",
                   reason |-> "RejectedFromServer",
                   message |-> "Rejected from server"]>>
        /\ character_trace[i].kind = "MapServerUnavailablePacket" =>
              character_trace[i].events =
                <<[kind |-> "CharacterSelectionFailed",
                   reason |-> "MapServerUnavailable",
                   message |-> "Map server currently unavailable"]>>
        /\ IsCharacterSelectionFailure(character_trace[i]) =>
              character_trace[i].events[1].reason \in UnifiedCharacterSelectionFailedReason

\* both kinds of selection failure were handled in one session
C13_Witness ==
    /\ \E i \in 1..Len(character_trace) :
         /\ character_trace[i].kind = "CharacterSelectionFailedPacket"
         /\ character_trace[i].payload = "RejectedFromServer"
         /\ Len(character_trace[i].events) = 1
    /\ \E i \in 1..Len(character_trace) :
         /\ character_trace[i].kind = "MapServerUnavailablePacket"
         /\ Len(character_trace[i].events) = 1

\* the step is a call of this operation
OfflineCallOf(op) == off_call'.op = op /\ off_call' # off_call

\* what a step of the provider may do when it is the first producing call,
\* connect_to_login_server, or a get_events call after it with nothing else produced
C14_Step ==
    /\ (produced = <<>> /\ OfflineCallOf("connect_to_login_server")) =>
          /\ Len(produced') = 1
          /\ produced'[1].event.kind = "LoginServerConnected"
          /\ DOMAIN produced'[1].event = {"kind", "character_servers", "login_data"}
          /\ event_buffer' = <<[event |-> produced'[1].event, seq |-> 1]>>
          /\ delivery' = <<>>
          /\ off_result' # "Panic"
    /\ (/\ Len(produced) = 1
        /\ produced[1].event.kind = "LoginServerConnected"
        /\ OfflineCallOf("get_events")) =>
          /\ delivery' = <<[seq |-> 1, call |-> produced[1].after_call + 1]>>
          /\ event_buffer' = <<>>

\* C14: on a fresh provider a successful connect_to_login_server produces
\* exactly one event, LoginServerConnected with character_servers and
\* login_data; the get_events calls up to and including the first one after
\* the connect deliver that one event and nothing before or after it.
C14_LoginConnectYieldsOneEvent == [][C14_Step]_vars

\* the success event of a fresh provider's connect has been delivered by a poll
C14_Witness ==
    /\ Len(produced) = 1
    /\ produced[1].event = OfflineLoginServerConnected
    /\ off_call.op = "get_events"
    /\ delivery = <<[seq |-> 1, call |-> 1]>>
    /\ Len(events) = 1
    /\ events[1].event.kind = "LoginServerConnected"

(***************************************************************************)
(* Properties of the network provider's sessions.                          *)
(***************************************************************************)
\* the state of the phase's session in the words of the state machine
\* Disconnected, Connecting, Connected, Closing
SessionState(phase) ==
    CASE server_connection[phase].state = "Connected" -> "Connected"
      [] server_connection[phase].state = "ClosingManually" -> "Closing"
      [] server_connection[phase].state = "Disconnected" -> "Disconnected"

\* the changes of state the state machine allows
AllowedTransitions ==
    {<<"Disconnected", "Connecting">>, <<"Connecting", "Connected">>,
     <<"Connected", "Closing">>, <<"Closing", "Disconnected">>,
     <<"Connecting", "Disconnected">>, <<"Connected", "Disconnected">>}

\* C15: the state of a phase's session changes only along Disconnected ->
\* Connecting -> Connected -> Closing -> Disconnected, or from any state to
\* Disconnected on a failure; Disconnected never becomes Connected directly.
C15_StateMachineTransitions ==
    [][\A phase \in Phases :
          SessionState(phase)' # SessionState(phase) =>
              <<SessionState(phase), SessionState(phase)'>> \in AllowedTransitions]_vars

\* the sessions of the phase whose task still runs
LiveSessions(phase) ==
    {n \in DOMAIN net_tasks : net_tasks[n].phase = phase /\ TaskLive(net_tasks[n])}

IsTerminal(phase, event) ==
    event \in {DisconnectedEvent(phase, "ConnectionError"),
               DisconnectedEvent(phase, "ClosedByClient")}

\* C17: while a session's handshake is unresolved the caller has received no
\* event of it, and the first event of every session is its connected event
\* or its disconnected event.
C17_NoEventBeforeHandshake ==
    \A n \in DOMAIN net_tasks :
        /\ net_tasks[n].status = "Handshaking" => net_events[n] = <<>>
        /\ net_events[n] # <<>> =>
             \/ net_events[n][1] = ConnectedEvent(net_tasks[n].phase)
             \/ IsTerminal(net_tasks[n].phase, net_events[n][1])

\* one session delivered its connected event and a packet's event, another
\* one, whose handshake failed, delivered its disconnected event first
C17_Witness ==
    /\ Len(net_tasks) = 2
    /\ net_events[1] = <<ConnectedEvent(net_tasks[1].phase), PacketEvent(1)>>
    /\ net_tasks[2].error = "FailedToConnect"
    /\ net_events[2] = <<DisconnectedEvent(net_tasks[2].phase, "ConnectionError")>>

\* the terminal events the caller has received of the session
TerminalEvents(n) ==
    {i \in 1..Len(net_events[n]) : IsTerminal(net_tasks[n].phase, net_events[n][i])}

\* C18: a session whose task failed (FailedToConnect during the handshake,
\* ConnectionClosed afterwards) delivers exactly one terminal event, as its
\* last event, and leaves its phase Disconnected: never two, and not none
\* once the phase has left the session behind.
C18_FailureYieldsOneTerminalEvent ==
    \A n \in DOMAIN net_tasks :
        net_tasks[n].status = "Failed" =>
            /\ Cardinality(TerminalEvents(n)) <= 1
            /\ \A i \in TerminalEvents(n) : i = Len(net_events[n])
            /\ server_connection[net_tasks[n].phase] # ServerConnected(n) =>
                 \/ /\ SessionOf(net_tasks[n].phase) = n
                    /\ server_connection[net_tasks[n].phase].state = "ClosingManually"
                 \/ Cardinality(TerminalEvents(n)) = 1

\* what a step may do to a phase and to the tasks when it is not a connect call
C19_Step ==
    /\ Len(net_tasks') - Len(net_tasks) = connect_calls' - connect_calls
    /\ \A phase \in Phases :
         (/\ server_connection[phase].state = "Disconnected"
          /\ connect_calls' = connect_calls) =>
             /\ server_connection'[phase].state = "Disconnected"
             /\ LiveSessions(phase)' = {}

\* C19: the provider never reconnects by itself: a Disconnected phase stays
\* Disconnected and no I/O task is spawned until the caller calls connect.
C19_NoReconnectWithoutConnectCall == [][C19_Step]_vars

\* a session ended by a socket error, its terminal event delivered, no second task
C19_Witness ==
    /\ Len(net_tasks) = 1
    /\ connect_calls = 1
    /\ net_tasks[1].error = "ConnectionClosed"
    /\ server_connection[net_tasks[1].phase].state = "Disconnected"
    /\ TerminalEvents(1) # {}

\* the task of the phase's latest session no longer runs
TaskStopped(phase) == SessionOf(phase) # 0 /\ ~TaskLive(net_tasks[SessionOf(phase)])

\* what a disconnect call does at once, and what holds until the next connect call
C20_Step ==
    \A phase \in Phases :
        /\ (/\ server_connection[phase].state = "Connected"
            /\ server_connection'[phase].state # "Connected") =>
              /\ server_connection'[phase].state \in {"ClosingManually", "Disconnected"}
              /\ TaskStopped(phase)'
        /\ (/\ server_connection[phase].state = "ClosingManually"
            /\ connect_calls' = connect_calls) =>
              /\ server_connection'[phase].state \in {"ClosingManually", "Disconnected"}
              /\ TaskStopped(phase)'
              /\ ~is_server_connected(phase)'

\* a manually closed phase reports not connected and has no running task
C20_Closing ==
    \A phase \in Phases :
        server_connection[phase].state = "ClosingManually" =>
            /\ ~is_server_connected(phase)
            /\ TaskStopped(phase)

HandshakeSucceeded(phase) ==
    /\ server_connection[phase].state = "Connected"
    /\ net_tasks[server_connection[phase].session].status = "Running"

\* C21: is_*_server_connected answers true exactly when the phase's session
\* is Connected: false on a new provider, while the handshake is pending,
\* while closing, after a disconnect and after a transport failure.
C21_ConnectedQueryReflectsSession ==
    \A phase \in Phases : is_server_connected(phase) <=> HandshakeSucceeded(phase)

\* the events that have arrived on the session's connection, in arrival order
Arrived(n) ==
    IF net_tasks[n].status = "Handshaking"
    THEN <<>>
    ELSE <<ConnectedEvent(net_tasks[n].phase)>>
           \o [i \in 1..net_tasks[n].packets |-> PacketEvent(i)]

\* C22: under every interleaving of the phases' tasks with get_events calls
\* the events of one phase reach the caller in the order of their arrival
\* and none is lost: what the caller has received of a session, followed by
\* what is still queued for it, is what has arrived.
C22_FifoWithinPhase ==
    \A n \in DOMAIN net_tasks :
        /\ net_events[n] \o event_channel[n] = Arrived(n)
        /\ \A m \in DOMAIN net_tasks : m # n => net_tasks[m].phase # net_tasks[n].phase

\* all three phases have delivered events, one of them two events in order
C22_Witness ==
    /\ Len(net_tasks) = 3
    /\ \A n \in DOMAIN net_tasks : net_events[n] # <<>>
    /\ \E n \in DOMAIN net_tasks :
         net_events[n] = <<ConnectedEvent(net_tasks[n].phase), PacketEvent(1)>>

\* what the network provider does for a call against an accepting server:
\* the kinds of the events the call leads to and the result of the call
NetworkProviderOutcome(call) ==
    CASE call.op \in {"connect_to_login_server", "connect_to_character_server"} ->
           [events |-> <<ConnectedEvent(call.phase).kind>>, result |-> "None"]
      [] call.op \in {"disconnect_from_login_server", "disconnect_from_character_server"} ->
           [events |-> IF WasConnected(call, call.phase)
                       THEN <<DisconnectedEvent(call.phase, "ClosedByClient").kind>>
                       ELSE <<>>,
            result |-> "None"]
      [] call.op = "request_character_list" ->
           IF call.character
           THEN [events |-> <<"CharacterList">>, result |-> "Ok"]
           ELSE [events |-> <<>>, result |-> "NotConnectedError"]

\* the login and character calls the two providers are compared on
ComparedCalls ==
    {"connect_to_login_server", "connect_to_character_server", "request_character_list",
     "disconnect_from_login_server", "disconnect_from_character_server"}

\* a compared call of the offline provider produces the event kinds and the
\* result the network provider has for it
C23_Step ==
    \A op \in ComparedCalls :
        (/\ OfflineCallOf(op)
         /\ op \in {"connect_to_login_server", "connect_to_character_server"}
              => ~WasConnected(off_call', off_call'.phase)
         /\ op \in {"disconnect_from_login_server", "disconnect_from_character_server"}
              => WasConnected(off_call', off_call'.phase)) =>
            /\ [i \in 1..(Len(produced') - Len(produced)) |->
                    produced'[Len(produced) + i].event.kind]
                 = NetworkProviderOutcome(off_call').events
            /\ (off_result' = "NotConnectedError")
                 <=> (NetworkProviderOutcome(off_call').result = "NotConnectedError")

\* C23: for the same sequence of calls (connect and disconnect of the login
\* and the character phase, request_character_list, get_events in between)
\* the offline provider produces the same sequence of event kinds as the
\* network provider against an accepting server and returns
\* NotConnectedError in the same situations.
C23_OfflineMatchesNetwork == [][C23_Step]_vars

\* the last call was a gameplay command made after the connect call of its
\* phase and before get_events has handed the phase's success event to the caller
CommandBeforeSuccessEvent ==
    /\ off_call.op \in {"request_character_list", "request_client_tick",
                        "noop_command", "unimplemented_command"}
    /\ WasConnected(off_call, off_call.phase)
    /\ \E i \in DOMAIN off_call.event_buffer :
         off_call.event_buffer[i].event.kind = ConnectedEvent(off_call.phase).kind

\* C24: a gameplay command issued after connect_to_*_server and before the
\* matching success event has been delivered returns Ok or
\* NotConnectedError; it never panics.
C24_EarlyCommandDoesNotPanic ==
    CommandBeforeSuccessEvent => off_result \in {"Ok", "NotConnectedError"}

\* the packet types of a registration function, in the order it registers them
PacketsOf(function) ==
    CASE function = "register_login_server_packets" -> LoginServerPackets
      [] function = "register_character_server_packets" -> CharacterServerPackets
      [] function = "register_map_server_packets" -> MapServerPackets

\* the position of the first packet type of the list that is already
\* registered when its turn comes, 0 if there is none
FirstDuplicate(before, types) ==
    LET Duplicates == {i \in DOMAIN types :
                          types[i] \in before \cup {types[j] : j \in 1..(i - 1)}}
    IN IF Duplicates = {} THEN 0
       ELSE CHOOSE i \in Duplicates : \A j \in Duplicates : i <= j

\* C25: registering a handler for a packet type that is already registered
\* on the handler fails with DuplicateHandlerError; each of the
\* register_*_server_packets functions returns the error of its first
\* duplicate registration and registers nothing after it, and returns Ok
\* only when every one of its handlers was registered.
C25_DuplicateRegistrationFails ==
    /\ registration.function = "register" =>
         IF registration.result = "Ok"
         THEN Cardinality(packet_handler) = Cardinality(registration.before) + 1
         ELSE /\ registration.result = "DuplicateHandlerError"
              /\ registration.duplicate \in registration.before
              /\ packet_handler = registration.before
    /\ registration.function \in {"register_login_server_packets",
                                  "register_character_server_packets",
                                  "register_map_server_packets"} =>
         LET types == PacketsOf(registration.function)
             first == FirstDuplicate(registration.before, types)
         IN IF first = 0
            THEN /\ registration.result = "Ok"
                 /\ packet_handler = registration.before \cup {types[i] : i \in DOMAIN types}
            ELSE /\ registration.result = "DuplicateHandlerError"
                 /\ registration.duplicate = types[first]
                 /\ packet_handler =
                      registration.before \cup {types[i] : i \in 1..(first - 1)}

\* a registration function has registered some of its handlers and stopped
\* at the one whose packet type was registered beforehand
C25_Witness ==
    /\ registration.function = "register_character_server_packets"
    /\ registration.result = "DuplicateHandlerError"
    /\ registration.duplicate = "Packet0b18"
    /\ registration.before = {"Packet0b18"}
    /\ "CharacterServerLoginSuccessPacket" \in packet_handler
    /\ "CharacterSelectionSuccessPacket" \notin packet_handler

\* C26: each LoginServerLoginSuccessPacket yields exactly one event,
\* LoginServerConnected, whose login_data holds the packet's account_id,
\* login_id1, login_id2 and sex; each CharacterSelectionSuccessPacket yields
\* exactly one event, CharacterSelected, whose login_data holds the packet's
\* map server IP (as an IPv4 address), port and character_id.
C26_SuccessPacketsCarryLoginData ==
    /\ \A i \in DOMAIN login_trace :
         login_trace[i].kind = "LoginServerLoginSuccessPacket" =>
            /\ Len(login_trace[i].events) = 1
            /\ login_trace[i].events[1].kind = "LoginServerConnected"
            /\ login_trace[i].events[1].login_data =
                 [account_id |-> login_trace[i].payload.account_id,
                  login_id1 |-> login_trace[i].payload.login_id1,
                  login_id2 |-> login_trace[i].payload.login_id2,
                  sex |-> login_trace[i].payload.sex]
    /\ \A i \in DOMAIN character_trace :
         character_trace[i].kind = "CharacterSelectionSuccessPacket" =>
            /\ Len(character_trace[i].events) = 1
            /\ character_trace[i].events[1].kind = "CharacterSelected"
            /\ character_trace[i].events[1].login_data =
                 [server_ip |-> [version |-> "V4",
                                 octets |-> character_trace[i].payload.map_server_ip],
                  server_port |-> character_trace[i].payload.map_server_port,
                  character_id |-> character_trace[i].payload.character_id]

\* a login success packet with two different login ids and a character
\* selection success packet have been handled
C26_Witness ==
    /\ \E i \in DOMAIN login_trace :
         /\ login_trace[i].kind = "LoginServerLoginSuccessPacket"
         /\ login_trace[i].payload.login_id1 # login_trace[i].payload.login_id2
    /\ \E i \in DOMAIN character_trace :
         /\ character_trace[i].kind = "CharacterSelectionSuccessPacket"
         /\ character_trace[i].payload.map_server_ip = <<192, 168, 0, 2>>

\* the connect and disconnect calls of the provider
ConnectionCalls ==
    {"connect_to_login_server", "connect_to_character_server", "connect_to_map_server",
     "disconnect_from_login_server", "disconnect_from_character_server",
     "disconnect_from_map_server"}

\* a connect or disconnect call leaves the answers of the connected queries
\* of the other two phases as they were
C27_Step ==
    (off_call' # off_call /\ off_call'.op \in ConnectionCalls) =>
        \A other \in Phases \ {off_call'.phase} :
            OfflineConnected(other)' = OfflineConnected(other)

\* C27: the phases are independent: a connect or disconnect call for one
\* phase changes the connection state of that phase only; the answers of
\* is_*_server_connected for the other two phases are unchanged by it.
C27_PhasesIndependent == [][C27_Step]_vars

\* the login server was disconnected while the character server was
\* connected, and the character server is still connected
C27_Witness ==
    /\ off_call.op = "disconnect_from_login_server"
    /\ off_call.character
    /\ is_character_server_connected
    /\ ~is_login_server_connected

\* the scope call a closure was spawned in is over
ScopeIsOver(n) == scope_calls[closures[n].scope] # "Running"

\* C28: scope returns, or panics, only after every task spawned inside it
\* has finished: once the scope call is over no worker is executing, or
\* has yet to execute, a closure spawned in it.
C28_ScopeJoinsEveryTask ==
    \A n \in DOMAIN closures :
        ScopeIsOver(n) => closures[n].status \in {"Done", "Panicked", "Dropped"}

\* a scope has returned after two tasks on different workers have run
C28_Witness ==
    /\ scope_calls # <<>>
    /\ scope_calls[1] = "Returned"
    /\ \E n, m \in DOMAIN closures :
         /\ closures[n].scope = 1 /\ closures[m].scope = 1
         /\ closures[n].thread # closures[m].thread
         /\ closures[n].status = "Done" /\ closures[m].status = "Done"

\* C29: every closure passed to spawn is executed exactly once, on the
\* worker selected by THREAD_NUM, before the enclosing scope returns, also
\* with several spawns on one worker in a scope and with repeated scope
\* calls: a closure that spawn has stored stays stored until its worker
\* runs it, it runs at most once and on that worker, and it has run when
\* the scope call is over.
C29_EveryClosureRunsOnce ==
    \A n \in DOMAIN closures :
        closures[n].status # "Dropped" =>
            /\ closures[n].status \in {"Stored", "Running", "Done", "Panicked"}
            /\ closures[n].runs <= 1
            /\ closures[n].runs = 1 => closures[n].ran_on = closures[n].thread
            /\ ScopeIsOver(n) => closures[n].runs = 1

\* the closures spawned in a scope call
TasksOf(call) == {n \in DOMAIN closures : closures[n].scope = call}

\* C30: if a closure spawned in a scope panics, the scope call itself
\* panics, and only after all other tasks spawned in that scope have
\* finished; the panic of a task is never swallowed: the scope call does
\* not return normally.
C30_TaskPanicReachesCaller ==
    \A call \in DOMAIN scope_calls :
        (\E n \in TasksOf(call) : closures[n].status = "Panicked") =>
            /\ scope_calls[call] # "Returned"
            /\ scope_calls[call] = "Panicked" =>
                 \A m \in TasksOf(call) : closures[m].status \in {"Done", "Panicked", "Dropped"}

\* function returned, one task of the scope panicked and another ran to
\* its end on the other worker, and the scope call has panicked
C30_Witness ==
    /\ Len(scope_calls) = 1
    /\ scope_calls[1] = "Panicked"
    /\ function_result = "Ok"
    /\ \E n, m \in TasksOf(1) :
         /\ closures[n].status = "Panicked"
         /\ closures[m].status = "Done"
         /\ closures[m].thread # closures[n].thread

\* function has ended without a panic and no closure spawned so far panics
JoiningTerminatingTasks ==
    /\ pool_main = "Joining"
    /\ function_result = "Ok"
    /\ \A n \in DOMAIN closures : ~closures[n].panics

\* C31: if every spawned closure terminates, scope eventually returns
\* under fair scheduling, for any sequence of spawn calls made inside the
\* scope, including two or more on the same worker: once function has
\* ended the counter comes back to zero and the scope call ends.
C31_ScopeEventuallyReturns == JoiningTerminatingTasks ~> (pool_main = "Idle")

\* the newest entry of a history
Newest(trace) == trace[Len(trace)]

\* what handling one packet may do when the packet is of a no-op type
C32_Step ==
    /\ (Len(map_trace') = Len(map_trace) + 1 /\ Newest(map_trace').kind \in MapNoopPackets) =>
          /\ Newest(map_trace').events = <<>>
          /\ ~Newest(map_trace').panic
          /\ inventory_items' = inventory_items
          /\ map_panicked' = map_panicked
    /\ (/\ Len(character_trace') = Len(character_trace) + 1
        /\ Newest(character_trace').kind \in CharacterNoopPackets) =>
          /\ Newest(character_trace').events = <<>>
          /\ UNCHANGED map_vars

\* C32: every packet type registered as an explicit no-op is consumed and
\* produces zero events, and handling it leaves the inventory accumulator
\* unchanged, also in the middle of a Start .. End sequence.
C32_NoopPacketsLeaveNoTrace == [][C32_Step]_vars

\* a no-op packet was handled in the middle of an inventory sequence that
\* holds items, and a no-op packet was handled by the character session
C32_Witness ==
    /\ map_trace # <<>>
    /\ Newest(map_trace).kind \in MapNoopPackets
    /\ Newest(map_trace).active
    /\ inventory_items.is_some
    /\ inventory_items.items # <<>>
    /\ character_trace # <<>>
    /\ Newest(character_trace).kind \in CharacterNoopPackets

(***************************************************************************)
(* Hotbar claims.                                                          *)
(***************************************************************************)
\* the Hotbar call the step makes, if it makes one
HotbarCalled(op) == hotbar_call'.n # hotbar_call.n /\ hotbar_call'.op = op

\* the command a slot's content is announced with
Announce(slot, content) ==
    [tab |-> 0, index |-> slot,
     hotkey_data |-> IF content = NoSkill
                     THEN UNBOUND
                     ELSE [is_skill |-> 1, skill_id |-> content.skill_id,
                           quantity_or_skill_level |-> content.skill_level]]

C33_Step ==
    HotbarCalled("swap_slot") =>
        LET source_slot == hotbar_call'.args[1]
            destination_slot == hotbar_call'.args[2]
        IN  /\ IF source_slot # destination_slot
               THEN /\ skills'[source_slot] = skills[destination_slot]
                    /\ skills'[destination_slot] = skills[source_slot]
                    /\ \A slot \in HotbarSlots \ {source_slot, destination_slot} :
                           skills'[slot] = skills[slot]
                    /\ hotbar_call'.commands =
                           <<Announce(destination_slot, skills[source_slot]),
                             Announce(source_slot, skills[destination_slot])>>
               ELSE /\ skills' = skills
                    /\ hotbar_call'.commands = <<>>
            /\ swap_slot(skills', hotbar_call'.results, source_slot,
                         destination_slot).skills = skills

\* C33: swap_slot with two different slots exchanges their contents, leaves the
\* other slots alone and issues two set_hotkey_data commands, the first for the
\* destination slot with the source's former content, the second for the source
\* slot with the destination's former content (UNBOUND for an empty slot); with
\* equal slots it changes nothing and issues nothing; the same swap applied to
\* the result gives the original hotbar back.
C33_SwapExchangesTwoSlots == [][C33_Step]_vars

\* a swap has moved a skill into an empty slot and announced the emptied slot
C33_Witness ==
    /\ hotbar_call.op = "swap_slot"
    /\ hotbar_call.args[1] # hotbar_call.args[2]
    /\ hotbar_call.before[hotbar_call.args[1]] \in Skills
    /\ hotbar_call.before[hotbar_call.args[2]] = NoSkill
    /\ Len(hotbar_call.commands) = 2
    /\ hotbar_call.commands[2].hotkey_data = UNBOUND
    /\ skills[hotbar_call.args[2]] \in Skills

\* the call of the history, made on its hotbar with a provider that answers Ok
SuccessfulCall(call) ==
    LET ok == [i \in 1..2 |-> "Ok"]
    IN  CASE call.op = "update_slot" ->
                 update_slot(call.before, ok, call.args[1], call.args[2])
          [] call.op = "clear_slot" -> clear_slot(call.before, ok, call.args[1])
          [] call.op = "swap_slot" ->
                 swap_slot(call.before, ok, call.args[1], call.args[2])

C39_Step ==
    hotbar_call'.n # hotbar_call.n => skills' = SuccessfulCall(hotbar_call').skills

\* C39: update_slot, clear_slot and swap_slot change the local hotbar whatever
\* set_hotkey_data returns: after a call that got NotConnectedError the slots
\* are what they are after the same call on a connected provider.
C39_LocalChangeIgnoresProviderResult == [][C39_Step]_vars

\* an update_slot whose command was refused has put the skill into the slot
C39_Witness ==
    /\ hotbar_call.op = "update_slot"
    /\ hotbar_call.results = <<"NotConnectedError">>
    /\ skills[hotbar_call.args[1]] = hotbar_call.args[2]
    /\ hotbar_call.before[hotbar_call.args[1]] # hotbar_call.args[2]

(***************************************************************************)
(* GameState claims.                                                       *)
(***************************************************************************)
\* the entities of the world that no entry of entity_mapping points to
Orphans == {entity \in DOMAIN world :
                \A id \in DOMAIN entity_mapping : entity_mapping[id] # entity}

\* the handles GameState keeps of entities that are no longer in the world
StaleHandles ==
    ({entity_mapping[id] : id \in DOMAIN entity_mapping} \cup
        (IF player_entity.is_some THEN {player_entity.entity} ELSE {}))
    \ DOMAIN world

\* C40: after any sequence of clear, spawn_player and spawn_npc calls with
\* arbitrary entity ids, player_entity (when set) and every entry of
\* entity_mapping point to a live entity, every live entity has exactly one
\* entry, and no call panics.
C40_MappingMatchesWorld ==
    /\ ~game_panicked
    /\ StaleHandles = {}
    /\ Orphans = {}
    /\ Cardinality(DOMAIN entity_mapping) = Cardinality(DOMAIN world)

(***************************************************************************)
(* Friend request result.                                                  *)
(***************************************************************************)
\* the handled FriendRequestResultPacket packets of the history
FriendResults == {n \in DOMAIN map_trace : map_trace[n].kind = "FriendRequestResultPacket"}

\* C34: the FriendRequestResultPacket handler returns a ChatMessage of color
\* Information first, and after it a FriendAdded for the packet's friend
\* exactly when the result is Accepted: two events for Accepted, one for
\* Rejected, OwnFriendListFull and OtherFriendListFull.
C34_FriendAddedOnlyWhenAccepted ==
    \A n \in FriendResults :
        LET packet == map_trace[n].items[1]
            returned == map_trace[n].events
        IN  /\ Len(returned) = IF packet.result = "Accepted" THEN 2 ELSE 1
            /\ returned[1].kind = "ChatMessage"
            /\ returned[1].color = "Information"
            /\ packet.result = "Accepted" =>
                   returned[2] = [kind |-> "FriendAdded", friend |-> packet.friend]

\* an accepted and a rejected request have both been handled
C34_Witness ==
    /\ \E n \in FriendResults :
           /\ map_trace[n].items[1].result = "Accepted"
           /\ Len(map_trace[n].events) = 2
    /\ \E n \in FriendResults :
           /\ map_trace[n].items[1].result = "Rejected"
           /\ Len(map_trace[n].events) = 1

(***************************************************************************)
(* Connected and disconnected events of a phase.                           *)
(***************************************************************************)
ConnectedKind(phase) ==
    CASE phase = "Login" -> "LoginServerConnected"
      [] phase = "Character" -> "CharacterServerConnected"
      [] phase = "Map" -> "MapServerConnected"

\* the n-th produced event is the disconnected event of the phase
IsDisconnected(n, phase) == produced[n].event.kind = DisconnectedEvent(phase, "None").kind

\* C35: in the event stream of the provider every disconnected event of a
\* phase comes after a connected event of that phase, with no other
\* disconnected event of the phase between the two; a disconnect call made
\* while the phase is not connected therefore emits no event.
C35_DisconnectedFollowsConnected ==
    \A phase \in Phases : \A n \in DOMAIN produced :
        IsDisconnected(n, phase) =>
            \E c \in 1..(n - 1) :
                /\ produced[c].event.kind = ConnectedKind(phase)
                /\ \A d \in (c + 1)..(n - 1) : ~IsDisconnected(d, phase)

(***************************************************************************)
(* Registration on an empty PacketHandler.                                 *)
(***************************************************************************)
RegistrationFunctions ==
    {"register_login_server_packets", "register_character_server_packets",
     "register_map_server_packets"}

\* C36: each of the three registration functions registers every packet
\* type at most once: run on an empty PacketHandler it returns Ok and the
\* handler then holds one handler for each of its registration statements.
C36_FreshRegistrationSucceeds ==
    \A function \in RegistrationFunctions :
        (registration.function = function /\ registration.before = {}) =>
            LET types == PacketsOf(function)
            IN  /\ registration.result = "Ok"
                /\ registration.duplicate = "None"
                /\ packet_handler = {types[i] : i \in DOMAIN types}
                /\ Cardinality(packet_handler) = Len(types)

\* register_map_server_packets has run on an empty handler and installed the
\* handlers of all its statements
C36_Witness ==
    /\ registration.function = "register_map_server_packets"
    /\ registration.before = {}
    /\ registration.result = "Ok"
    /\ Cardinality(packet_handler) = Len(MapServerPackets)
    /\ "FriendRequestResultPacket" \in packet_handler

(***************************************************************************)
(* Locks of the thread pool, and the pool after a panic.                   *)
(***************************************************************************)
\* spawn holds the worker's work channel and waits for its start signal,
\* thread_loop holds the start signal and waits for the work channel
LockedCrosswise(thread) ==
    /\ pool_main = "Spawning"
    /\ pool_spawn.thread = thread
    /\ work_channels[thread].owner = "Main"
    /\ worker[thread] = "Started"
    /\ start_signals[thread].owner = "Worker"

\* C37: the pool never deadlocks on its own locks: in no reachable state
\* does the spawning thread hold a worker's work-channel mutex and wait for
\* that worker's start-signal mutex while the worker holds the start-signal
\* mutex and waits for the work-channel mutex.
C37_NoLockOrderDeadlock == \A thread \in Threads : ~LockedCrosswise(thread)

\* function of the scope call panicked in code of its own, not in a spawn
FunctionPanicked(call) ==
    /\ function_result = "Err"
    /\ \A n \in TasksOf(call) : closures[n].status # "Dropped"

\* C38: the pool stays usable after a task panicked: a later scope call
\* whose closures do not panic returns normally; the earlier panic is not
\* reported again and does not make a later spawn fail.
C38_PoolUsableAfterPanic ==
    LET call == Len(scope_calls)
    IN  (/\ call > 0
         /\ scope_calls[call] # "Running"
         /\ ~FunctionPanicked(call)
         /\ \A n \in TasksOf(call) : ~closures[n].panics) =>
            scope_calls[call] = "Returned"
====
